---- MODULE Spec2Model ----
(***************************************************************************)
(* Chunking, vector index and retrieval pipeline of the                    *)
(* crypto-regulator-checker backend:                                       *)
(*   src/document_processing/chunking.py  SimpleChunker, RecursiveChunker  *)
(*   src/vector_store/memory_store.py     MemoryStore                      *)
(*   src/vector_store/memory.py           MemoryVectorStore                *)
(*   src/rag/retrieval.py                 SemanticRetrieval                *)
(* Texts are sequences of one-character strings; offsets are 0-based and   *)
(* half-open as in Python, so text[lo:hi] is SubSeq(text, lo + 1, hi).     *)
(***************************************************************************)
EXTENDS Integers, Sequences, FiniteSets, TLC

VARIABLES
    pc,              \* position of the running call
    text,            \* chunk_text argument
    config,          \* ChunkingStrategy.config
    strategy,        \* "simple" | "recursive"
    current_pos,     \* SimpleChunker cursor
    chunk_index,     \* next index to hand out
    chunks,          \* list of TextChunk built so far
    major_sections,  \* RecursiveChunker: result of the blank-line split
    section_no,      \* RecursiveChunker: number of sections already processed
    metadata_obj,    \* chunk_text's metadata: the argument, then the local dict object
    heap,            \* the dict objects: heap[ref] is the content of object ref
    chunk_metadata,  \* chunk_metadata[i] is the object that is chunks[i].metadata
    collection,      \* ChromaStore.collection (id -> record, in insertion order)
    embedding_dimension, \* VectorStoreConfig.embedding_dimension
    limiter,         \* RateLimiter: requests_per_minute, burst_limit, exclude_paths
    request_counts,  \* RateLimiter.request_counts (ip -> timestamp -> count)
    locks,           \* RateLimiter.locks: the ips that have a lock object
    clock,           \* time.time(), in seconds
    served,          \* the rate-limited requests answered so far, oldest first
    tasks,           \* the coroutines handed to the event loop, each with its progress
    metric,          \* MemoryStore.config.distance_metric
    ms_texts,        \* MemoryStore._texts      (dict, in insertion order)
    ms_embeddings,   \* MemoryStore._embeddings (dict, in insertion order)
    ms_metadata,     \* MemoryStore._metadata   (dict, in insertion order)
    uuid_count,      \* number of ids uuid4() has handed out
    recording,       \* whether this specification keeps the history variable live
    live,            \* history: id -> text and metadata of its last successful add
    mv_texts,        \* MemoryVectorStore.texts
    mv_embeddings,   \* MemoryVectorStore.embeddings
    mv_metadatas,    \* MemoryVectorStore.metadatas
    call,            \* the call that has just returned, with its arguments
    result           \* what that call returned or raised

chunk_vars == <<text, config, strategy, current_pos, chunk_index, chunks,
                major_sections, section_no, metadata_obj, heap, chunk_metadata>>

chroma_vars == <<collection>>

rl_vars == <<limiter, request_counts, locks, clock, served>>

ms_vars == <<metric, ms_texts, ms_embeddings, ms_metadata, uuid_count, recording,
            live>>

mv_vars == <<mv_texts, mv_embeddings, mv_metadatas>>

obs_vars == <<call, result>>

vars == <<pc, chunk_vars, ms_vars, mv_vars, obs_vars, chroma_vars,
          embedding_dimension, rl_vars, tasks>>

\* the variables of the components a specification does not exercise
ChunkParked ==
    /\ text = <<>>
    /\ config = [chunk_size |-> 1, chunk_overlap |-> 0, min_chunk_size |-> 1,
                 split_on_newline |-> TRUE, respect_sentences |-> TRUE]
    /\ strategy = "simple"
    /\ current_pos = 0
    /\ chunk_index = 0
    /\ chunks = <<>>
    /\ major_sections = <<>>
    /\ section_no = 0
    /\ metadata_obj = [some |-> FALSE]
    /\ heap = <<>>
    /\ chunk_metadata = <<>>

ChromaParked ==
    /\ collection = <<>>

RlParked ==
    /\ limiter = [requests_per_minute |-> 1, burst_limit |-> 1]
    /\ request_counts = <<>>
    /\ locks = {}
    /\ clock = 0
    /\ served = <<>>
    /\ tasks = <<>>

MsParked ==
    /\ embedding_dimension = 2
    /\ metric = "cosine"
    /\ ms_texts = <<>>
    /\ ms_embeddings = <<>>
    /\ ms_metadata = <<>>
    /\ uuid_count = 0
    /\ recording = FALSE
    /\ live = <<>>

MvParked ==
    /\ mv_texts = <<>>
    /\ mv_embeddings = <<>>
    /\ mv_metadatas = <<>>

NoCall ==
    /\ call = [op |-> "none"]
    /\ result = [outcome |-> "none", value |-> <<>>]

(***************************************************************************)
(* Bounds                                                                  *)
(***************************************************************************)
MaxLen == 4
MaxChunkSize == 3
MaxBatch == 2
MaxK == 2
MaxStore == 3
MaxTopK == 2

NL == "\n"
SP == " "
Alphabet == {"a", ".", SP, NL}

\* an Optional argument: None, or Some(v)
None == [some |-> FALSE]
Some(v) == [some |-> TRUE, v |-> v]

Min(a, b) == IF a < b THEN a ELSE b
Max(a, b) == IF a > b THEN a ELSE b

RECURSIVE SeqsUpTo(_)
SeqsUpTo(n) ==
    IF n = 0 THEN {<<>>}
    ELSE LET S == SeqsUpTo(n - 1)
         IN  S \cup {Append(s, c) : s \in {t \in S : Len(t) = n - 1}, c \in Alphabet}

Texts == SeqsUpTo(MaxLen)

\* the sequences over S of length at most n
RECURSIVE SeqsOver(_, _)
SeqsOver(S, n) ==
    IF n = 0 THEN {<<>>}
    ELSE LET R == SeqsOver(S, n - 1)
         IN  R \cup {Append(r, x) : r \in {t \in R : Len(t) = n - 1}, x \in S}

(***************************************************************************)
(* Python string primitives, on pieces [lo, hi) of a text T                *)
(***************************************************************************)
Slice(T, lo, hi) == SubSeq(T, lo + 1, hi)

Piece(lo, hi) == [lo |-> lo, hi |-> hi]

PieceText(T, p) == Slice(T, p.lo, p.hi)

PieceLen(p) == p.hi - p.lo

\* str.isspace / regex \s, restricted to the alphabet
IsSpace(c) == c \in {SP, NL, "\t", "\r"}

\* regex [.!?]
IsTerminal(c) == c \in {".", "!", "?"}

\* regex [\s"')\]}]
IsCloser(c) == IsSpace(c) \/ c \in {"\"", "'", ")", "]", "}"}

RECURSIVE LStrip(_, _, _)
LStrip(T, lo, hi) ==
    IF lo < hi /\ IsSpace(T[lo + 1]) THEN LStrip(T, lo + 1, hi) ELSE lo

RECURSIVE RStrip(_, _, _)
RStrip(T, lo, hi) ==
    IF lo < hi /\ IsSpace(T[hi]) THEN RStrip(T, lo, hi - 1) ELSE hi

\* str.strip()
Strip(T, p) ==
    LET l == LStrip(T, p.lo, p.hi)
    IN  Piece(l, RStrip(T, l, p.hi))

\* str.split('\n'): the fields between newlines, empty fields included
RECURSIVE SplitLinesFrom(_, _, _, _)
SplitLinesFrom(T, lo, i, hi) ==
    IF i = hi THEN <<Piece(lo, hi)>>
    ELSE IF T[i + 1] = NL
         THEN <<Piece(lo, i)>> \o SplitLinesFrom(T, i + 1, i + 1, hi)
         ELSE SplitLinesFrom(T, lo, i + 1, hi)

SplitLines(T, p) == SplitLinesFrom(T, p.lo, p.lo, p.hi)

\* str.find(sub, start): lowest offset >= start where sub occurs, else -1
Find(T, sub, start) ==
    LET hits == {i \in start..(Len(T) - Len(sub)) : Slice(T, i, i + Len(sub)) = sub}
    IN  IF hits = {} THEN -1
        ELSE CHOOSE i \in hits : \A j \in hits : i <= j

\* '\n'.join(parts)
RECURSIVE JoinLines(_, _)
JoinLines(T, parts) ==
    IF parts = <<>> THEN <<>>
    ELSE IF Len(parts) = 1 THEN PieceText(T, parts[1])
    ELSE PieceText(T, parts[1]) \o <<NL>> \o JoinLines(T, Tail(parts))

\* end of the run of characters satisfying the class, from offset i
RECURSIVE SpaceRunEnd(_, _, _)
SpaceRunEnd(T, i, hi) ==
    IF i < hi /\ IsSpace(T[i + 1]) THEN SpaceRunEnd(T, i + 1, hi) ELSE i

RECURSIVE CloserRunEnd(_, _, _)
CloserRunEnd(T, i, hi) ==
    IF i < hi /\ IsCloser(T[i + 1]) THEN CloserRunEnd(T, i + 1, hi) ELSE i

(***************************************************************************)
(* ChunkConfig                                                             *)
(***************************************************************************)
\* the overlap test with > in place of >=
ChunkConfigValidLax(c) ==
    /\ ~(c.chunk_size <= 0)
    /\ ~(c.chunk_overlap < 0)
    /\ ~(c.chunk_overlap > c.chunk_size)
    /\ ~(c.min_chunk_size <= 0)
    /\ ~(c.min_chunk_size > c.chunk_size)

\* ChunkConfig.__post_init__: TRUE iff construction raises no ValueError
ChunkConfigValid(c) ==
    /\ ~(c.chunk_size <= 0)
    /\ ~(c.chunk_overlap < 0)
    /\ ~(c.chunk_overlap >= c.chunk_size)
    /\ ~(c.min_chunk_size <= 0)
    /\ ~(c.min_chunk_size > c.chunk_size)

ChunkConfigs ==
    {c \in [chunk_size : 0..MaxChunkSize,
            chunk_overlap : 0..MaxChunkSize,
            min_chunk_size : 0..MaxChunkSize,
            split_on_newline : BOOLEAN,
            respect_sentences : BOOLEAN] : ChunkConfigValid(c)}

\* TextChunk; src_lo/src_hi record the part of the text the chunk was cut from
TextChunk(txt, start_char, idx, src_lo, src_hi) ==
    [text |-> txt, start_char |-> start_char, end_char |-> start_char + Len(txt),
     chunk_index |-> idx, src_lo |-> src_lo, src_hi |-> src_hi]

\* the same object handed out instead of a copy
AliasMetadata(h, ref) == [heap |-> h, ref |-> ref]

\* metadata.copy(): a new dict object with the items of object ref
CopyMetadata(h, ref) == [heap |-> Append(h, h[ref]), ref |-> Len(h) + 1]

\* metadata.copy() once for each of n TextChunks
RECURSIVE CopyEach(_, _, _)
CopyEach(h, ref, n) ==
    IF n = 0 THEN [heap |-> h, refs |-> <<>>]
    ELSE LET c == CopyMetadata(h, ref)
             rest == CopyEach(c.heap, ref, n - 1)
         IN  [heap |-> rest.heap, refs |-> <<c.ref>> \o rest.refs]

\* Emit without the chunk_index += 1 that follows the append
EmitNoIncrement(acc, chunk) ==
    [acc EXCEPT !.chunks = Append(@, chunk)]

\* chunks.append(TextChunk(..., chunk_index=chunk_index)); chunk_index += 1
Emit(acc, chunk) ==
    [acc EXCEPT !.chunks = Append(@, chunk), !.chunk_index = @ + 1]

(***************************************************************************)
(* SimpleChunker                                                           *)
(***************************************************************************)
\* re.finditer(r'\n', search_text): offsets of the newlines in [i, hi)
RECURSIVE NewlineMatches(_, _, _)
NewlineMatches(T, i, hi) ==
    IF i >= hi THEN <<>>
    ELSE IF T[i + 1] = NL THEN <<i>> \o NewlineMatches(T, i + 1, hi)
    ELSE NewlineMatches(T, i + 1, hi)

\* SimpleChunker._find_newline_boundary
FindNewlineBoundary(T, cfg, start_pos, end_pos) ==
    LET boundaries == SelectSeq(NewlineMatches(T, start_pos, end_pos),
                                LAMBDA pos : pos > start_pos + cfg.min_chunk_size)
        after == SelectSeq(boundaries,
                           LAMBDA pos : pos > start_pos + cfg.min_chunk_size)
    IN  IF boundaries = <<>> THEN end_pos
        ELSE IF after # <<>> THEN Head(after)
        ELSE end_pos

\* re.finditer(r'[.!?][\s"\')\]}]*', search_text): match.end() of every match
RECURSIVE SentenceMatchEnds(_, _, _)
SentenceMatchEnds(T, i, hi) ==
    IF i >= hi THEN <<>>
    ELSE IF IsTerminal(T[i + 1])
         THEN LET e == CloserRunEnd(T, i + 1, hi)
              IN  <<e>> \o SentenceMatchEnds(T, e, hi)
         ELSE SentenceMatchEnds(T, i + 1, hi)

\* SimpleChunker._find_sentence_boundary
FindSentenceBoundary(T, cfg, start_pos, end_pos) ==
    LET boundaries == SelectSeq(SentenceMatchEnds(T, start_pos, end_pos),
                                LAMBDA pos : pos > start_pos + cfg.min_chunk_size)
        fitting == SelectSeq(boundaries, LAMBDA pos : pos <= end_pos)
    IN  IF boundaries = <<>> THEN end_pos
        ELSE IF fitting # <<>> THEN fitting[Len(fitting)]
        ELSE end_pos

\* chunk_text lines 86-92: the size cutoff, moved to a newline when one is found
NewlineEnd(T, cfg, pos) ==
    LET chunk_end == Min(pos + cfg.chunk_size, Len(T))
    IN  IF cfg.split_on_newline /\ chunk_end < Len(T)
        THEN LET newline_pos == FindNewlineBoundary(T, cfg, pos, chunk_end)
             IN  IF newline_pos > pos + cfg.min_chunk_size
                 THEN newline_pos ELSE chunk_end
        ELSE chunk_end

\* chunk_text lines 86-99: the end of the window that starts at pos
ChunkEnd(T, cfg, pos) ==
    LET chunk_end == NewlineEnd(T, cfg, pos)
    IN  IF chunk_end < Len(T) /\ cfg.respect_sentences
        THEN LET sentence_end == FindSentenceBoundary(T, cfg, pos, chunk_end)
             IN  IF sentence_end > pos + cfg.min_chunk_size
                 THEN sentence_end ELSE chunk_end
        ELSE chunk_end

\* chunk_text lines 111-119 and 124-132: one chunk for a stripped piece
SimpleEmitPiece(T, pos, acc, p) ==
    IF PieceLen(p) = 0 THEN acc
    ELSE Emit(acc, TextChunk(PieceText(T, p), Find(T, PieceText(T, p), pos),
                             acc.chunk_index, p.lo, p.hi))

\* chunk_text lines 108-119: for line in lines[:-1]
RECURSIVE SimpleEmitLines(_, _, _, _)
SimpleEmitLines(T, pos, acc, lines) ==
    IF lines = <<>> THEN acc
    ELSE SimpleEmitLines(T, pos,
                         SimpleEmitPiece(T, pos, acc, Strip(T, lines[1])),
                         Tail(lines))

\* the window emitted as one chunk, its lines not split
SimpleEmitWindowWhole(T, cfg, pos, chunk_end, acc) ==
    LET chunk_text == Strip(T, Piece(pos, chunk_end))
    IN  IF PieceLen(chunk_text) = 0 THEN acc
        ELSE SimpleEmitPiece(T, pos, acc, chunk_text)

\* chunk_text lines 102-132: the chunks of the window [pos, chunk_end)
SimpleEmitWindow(T, cfg, pos, chunk_end, acc) ==
    LET chunk_text == Strip(T, Piece(pos, chunk_end))
    IN  IF PieceLen(chunk_text) = 0 THEN acc
        ELSE IF cfg.split_on_newline /\ chunk_end < Len(T)
             THEN LET lines == SplitLines(T, chunk_text)
                      acc1 == SimpleEmitLines(T, pos, acc,
                                              SubSeq(lines, 1, Len(lines) - 1))
                  IN  SimpleEmitPiece(T, pos, acc1, Strip(T, lines[Len(lines)]))
             ELSE SimpleEmitPiece(T, pos, acc, chunk_text)

\* the overlap taken off without the test for progress
NextPosUnguarded(cfg, chunk_end) == chunk_end - cfg.chunk_overlap

\* chunk_text lines 135-137: the cursor after the window ending at chunk_end
NextPos(cfg, chunk_end) ==
    LET pos == chunk_end - cfg.chunk_overlap
    IN  IF pos <= pos THEN chunk_end ELSE pos


(***************************************************************************)
(* RecursiveChunker                                                        *)
(***************************************************************************)
\* end of the match of r'\n\s*\n' that starts at offset i, or -1: the regex
\* takes the longest whitespace run that still ends in a newline
MajorMatchEnd(T, i) ==
    IF T[i + 1] # NL THEN -1
    ELSE LET r == SpaceRunEnd(T, i + 1, Len(T))
             nls == {j \in (i + 1)..(r - 1) : T[j + 1] = NL}
         IN  IF nls = {} THEN -1
             ELSE (CHOOSE j \in nls : \A k \in nls : k <= j) + 1

\* re.split(r'\n\s*\n', text)
RECURSIVE SplitMajorFrom(_, _, _)
SplitMajorFrom(T, lo, i) ==
    IF i >= Len(T) THEN <<Piece(lo, Len(T))>>
    ELSE LET e == MajorMatchEnd(T, i)
         IN  IF e # -1 THEN <<Piece(lo, i)>> \o SplitMajorFrom(T, e, e)
             ELSE SplitMajorFrom(T, lo, i + 1)

SplitMajor(T) == SplitMajorFrom(T, 0, 0)

\* re.split(r'(?<=[.!?])\s+', subsection)
RECURSIVE SplitSentencesFrom(_, _, _, _, _)
SplitSentencesFrom(T, first, lo, i, hi) ==
    IF i >= hi THEN <<Piece(lo, hi)>>
    ELSE IF i > first /\ IsTerminal(T[i]) /\ IsSpace(T[i + 1])
         THEN LET e == SpaceRunEnd(T, i, hi)
              IN  <<Piece(lo, i)>> \o SplitSentencesFrom(T, first, e, e, hi)
         ELSE SplitSentencesFrom(T, first, lo, i + 1, hi)

SplitSentences(T, p) == SplitSentencesFrom(T, p.lo, p.lo, p.lo, p.hi)

\* chunk_text lines 262-273, 297-308, 315-324: emit '\n'.join(current_chunk)
FlushBuffer(T, acc) ==
    LET chunk_text == JoinLines(T, acc.current_chunk)
        n == Len(acc.current_chunk)
    IN  [Emit(acc, TextChunk(chunk_text, Find(T, chunk_text, 0), acc.chunk_index,
                             acc.current_chunk[1].lo, acc.current_chunk[n].hi))
            EXCEPT !.current_chunk = <<>>, !.current_length = 0]

\* chunk_text lines 281-291: for i in range(0, len(sentence), chunk_size)
RECURSIVE HardSplit(_, _, _, _, _)
HardSplit(T, cfg, acc, sentence, i) ==
    IF i >= PieceLen(sentence) THEN acc
    ELSE LET p == Piece(sentence.lo + i,
                        Min(sentence.lo + i + cfg.chunk_size, sentence.hi))
         IN  HardSplit(T, cfg,
                       Emit(acc, TextChunk(PieceText(T, p),
                                           Find(T, PieceText(T, p), 0),
                                           acc.chunk_index, p.lo, p.hi)),
                       sentence, i + cfg.chunk_size)

\* chunk_text lines 293-308: buffer a sentence, emit the buffer once it is over
BufferSentence(T, cfg, acc, sentence) ==
    LET acc1 == [acc EXCEPT !.current_chunk = Append(@, sentence),
                            !.current_length = @ + PieceLen(sentence)]
    IN  IF acc1.current_length > cfg.chunk_size THEN FlushBuffer(T, acc1)
        ELSE acc1

\* chunk_text lines 278-308: for sentence in sentences
RECURSIVE RecursiveSentences(_, _, _, _)
RecursiveSentences(T, cfg, acc, sentences) ==
    IF sentences = <<>> THEN acc
    ELSE LET sentence == sentences[1]
             acc1 == IF PieceLen(sentence) > cfg.chunk_size
                     THEN HardSplit(T, cfg, acc, sentence, 0)
                     ELSE BufferSentence(T, cfg, acc, sentence)
         IN  RecursiveSentences(T, cfg, acc1, Tail(sentences))

\* chunk_text lines 255-311: one subsection of an oversized section
RecursiveSubsection(T, cfg, acc, raw) ==
    LET subsection == Strip(T, raw)
    IN  IF PieceLen(subsection) = 0 THEN acc
        ELSE LET acc1 ==
                     IF /\ acc.current_length + PieceLen(subsection) > cfg.chunk_size
                        /\ acc.current_chunk # <<>>
                     THEN FlushBuffer(T, acc) ELSE acc
             IN  IF PieceLen(subsection) > cfg.chunk_size
                 THEN RecursiveSentences(T, cfg, acc1, SplitSentences(T, subsection))
                 ELSE [acc1 EXCEPT !.current_chunk = Append(@, subsection),
                                   !.current_length = @ + PieceLen(subsection)]

\* chunk_text lines 254-311: for subsection in subsections
RECURSIVE RecursiveSubsections(_, _, _, _)
RecursiveSubsections(T, cfg, acc, subsections) ==
    IF subsections = <<>> THEN acc
    ELSE RecursiveSubsections(T, cfg,
                              RecursiveSubsection(T, cfg, acc, subsections[1]),
                              Tail(subsections))

\* chunk_text lines 233-324: one iteration of for section in major_sections
RecursiveSection(T, cfg, acc0, raw) ==
    LET section == Strip(T, raw)
        acc == [acc0 EXCEPT !.current_chunk = <<>>, !.current_length = 0]
    IN  IF PieceLen(section) = 0 THEN acc
        ELSE IF PieceLen(section) <= cfg.chunk_size
        THEN Emit(acc, TextChunk(PieceText(T, section),
                                 Find(T, PieceText(T, section), 0),
                                 acc.chunk_index, section.lo, section.hi))
        ELSE LET acc1 == RecursiveSubsections(T, cfg, acc, SplitLines(T, section))
             IN  IF acc1.current_chunk # <<>> THEN FlushBuffer(T, acc1) ELSE acc1

(***************************************************************************)
(* chunk_text as a state machine: one step per loop iteration              *)
(***************************************************************************)
\* the state at the call of chunk_text
ChunkCall ==
    /\ pc = "call"
    /\ current_pos = 0
    /\ chunk_index = 0
    /\ chunks = <<>>
    /\ major_sections = <<>>
    /\ section_no = 0
    /\ chunk_metadata = <<>>
    /\ MsParked /\ MvParked /\ ChromaParked /\ NoCall /\ RlParked

\* chunker.chunk_text(text): no metadata passed
InitChunk ==
    /\ text \in Texts
    /\ config \in ChunkConfigs
    /\ strategy \in {"simple", "recursive"}
    /\ metadata_obj = None
    /\ heap = <<>>
    /\ ChunkCall

\* lines 76-77 and 222-223: if not text: return []
EmptyReturn ==
    /\ pc = "call"
    /\ text = <<>>
    /\ pc' = "done"
    /\ UNCHANGED <<ms_vars, mv_vars, obs_vars, chroma_vars, embedding_dimension, rl_vars, tasks>>
    /\ UNCHANGED <<text, config, strategy, current_pos, chunk_index, chunks,
                   major_sections, section_no, metadata_obj, heap, chunk_metadata>>

\* lines 79 and 225: metadata = metadata or {}
BindMetadata ==
    IF metadata_obj.some /\ heap[metadata_obj.v] # {}
    THEN UNCHANGED <<metadata_obj, heap>>
    ELSE /\ heap' = Append(heap, {})
         /\ metadata_obj' = Some(Len(heap) + 1)

\* metadata=metadata.copy() of the n TextChunks one iteration constructs
AttachMetadata(n) ==
    LET r == CopyEach(heap, metadata_obj.v, n)
    IN  /\ heap' = r.heap
        /\ chunk_metadata' = chunk_metadata \o r.refs
        /\ UNCHANGED metadata_obj

\* SimpleChunker.chunk_text lines 79-82
SimpleEnter ==
    /\ pc = "call"
    /\ strategy = "simple"
    /\ text # <<>>
    /\ pc' = "simple_loop"
    /\ BindMetadata
    /\ current_pos' = 0
    /\ chunk_index' = 0
    /\ chunks' = <<>>
    /\ UNCHANGED <<ms_vars, mv_vars, obs_vars, chroma_vars, embedding_dimension, rl_vars, tasks>>
    /\ UNCHANGED <<text, config, strategy, major_sections, section_no,
                   chunk_metadata>>

\* SimpleChunker.chunk_text lines 84-137: one iteration of the while loop
SimpleIteration ==
    /\ pc = "simple_loop"
    /\ current_pos < Len(text)
    /\ LET chunk_end == ChunkEnd(text, config, current_pos)
           acc == SimpleEmitWindow(text, config, current_pos, chunk_end,
                                   [chunks |-> chunks, chunk_index |-> chunk_index])
       IN  /\ chunks' = acc.chunks
           /\ chunk_index' = acc.chunk_index
           /\ current_pos' = NextPos(config, chunk_end)
           /\ AttachMetadata(Len(acc.chunks) - Len(chunks))
    /\ UNCHANGED <<ms_vars, mv_vars, obs_vars, chroma_vars, embedding_dimension, rl_vars, tasks>>
    /\ UNCHANGED <<pc, text, config, strategy, major_sections, section_no>>

\* SimpleChunker.chunk_text line 139
SimpleReturn ==
    /\ pc = "simple_loop"
    /\ ~(current_pos < Len(text))
    /\ pc' = "done"
    /\ UNCHANGED <<ms_vars, mv_vars, obs_vars, chroma_vars, embedding_dimension, rl_vars, tasks>>
    /\ UNCHANGED <<text, config, strategy, current_pos, chunk_index, chunks,
                   major_sections, section_no, metadata_obj, heap, chunk_metadata>>

\* RecursiveChunker.chunk_text lines 225-230
RecursiveEnter ==
    /\ pc = "call"
    /\ strategy = "recursive"
    /\ text # <<>>
    /\ pc' = "recursive_loop"
    /\ BindMetadata
    /\ chunk_index' = 0
    /\ chunks' = <<>>
    /\ major_sections' = SplitMajor(text)
    /\ section_no' = 0
    /\ UNCHANGED <<ms_vars, mv_vars, obs_vars, chroma_vars, embedding_dimension, rl_vars, tasks>>
    /\ UNCHANGED <<text, config, strategy, current_pos, chunk_metadata>>

\* RecursiveChunker.chunk_text lines 232-324: one iteration of the outer loop
RecursiveIteration ==
    /\ pc = "recursive_loop"
    /\ section_no < Len(major_sections)
    /\ LET acc == RecursiveSection(text, config,
                                   [chunks |-> chunks, chunk_index |-> chunk_index,
                                    current_chunk |-> <<>>, current_length |-> 0],
                                   major_sections[section_no + 1])
       IN  /\ chunks' = acc.chunks
           /\ chunk_index' = acc.chunk_index
           /\ AttachMetadata(Len(acc.chunks) - Len(chunks))
    /\ section_no' = section_no + 1
    /\ UNCHANGED <<ms_vars, mv_vars, obs_vars, chroma_vars, embedding_dimension, rl_vars, tasks>>
    /\ UNCHANGED <<pc, text, config, strategy, current_pos, major_sections>>

\* RecursiveChunker.chunk_text line 326
RecursiveReturn ==
    /\ pc = "recursive_loop"
    /\ ~(section_no < Len(major_sections))
    /\ pc' = "done"
    /\ UNCHANGED <<ms_vars, mv_vars, obs_vars, chroma_vars, embedding_dimension, rl_vars, tasks>>
    /\ UNCHANGED <<text, config, strategy, current_pos, chunk_index, chunks,
                   major_sections, section_no, metadata_obj, heap, chunk_metadata>>

NextChunk ==
    \/ EmptyReturn
    \/ SimpleEnter
    \/ SimpleIteration
    \/ SimpleReturn
    \/ RecursiveEnter
    \/ RecursiveIteration
    \/ RecursiveReturn

SpecChunk == InitChunk /\ [][NextChunk]_vars


(***************************************************************************)
(* Properties of the chunkers                                              *)
(***************************************************************************)
\* the text with every whitespace character deleted
DeleteWhitespace(s) == SelectSeq(s, LAMBDA c : ~IsSpace(c))

\* ''.join(chunk.text for chunk in chunks)
RECURSIVE ConcatTexts(_)
ConcatTexts(cs) ==
    IF cs = <<>> THEN <<>> ELSE cs[1].text \o ConcatTexts(Tail(cs))

\* C1: every chunk returned by either chunker has len(chunk.text) <= chunk_size,
\* chunks joined from buffered lines or sentences included.
C1_ChunkWithinSize ==
    \A i \in 1..Len(chunks) : Len(chunks[i].text) <= config.chunk_size

\* C2: once chunk_text has returned, the chunk texts concatenated in chunk_index
\* order and stripped of whitespace equal the input stripped of whitespace.
C2_Reconstruction ==
    pc = "done" =>
        DeleteWhitespace(ConcatTexts(chunks)) = DeleteWhitespace(text)

\* C3: the i-th chunk (0-based) built by a chunk_text call has chunk_index = i,
\* whichever emission path appended it, and the next index is the chunk count.
C3_ContiguousIndices ==
    /\ \A i \in 1..Len(chunks) : chunks[i].chunk_index = i - 1
    /\ pc # "call" => chunk_index = Len(chunks)

\* C3 witness: a RecursiveChunker call that has returned after emitting hard-split
\* pieces (the oversized sentence) and then the buffered sentence before it.
C3_Witness ==
    /\ pc = "done"
    /\ strategy = "recursive"
    /\ Len(chunks) >= 3
    /\ \E i \in 1..Len(chunks) : chunks[i].src_hi - chunks[i].src_lo = config.chunk_size
    /\ chunks[Len(chunks)].chunk_index = Len(chunks) - 1

\* C4: RecursiveChunker emits in document order: for chunk indices i < j the
\* source range of chunk i ends before the source range of chunk j starts.
C4_DocumentOrder ==
    strategy = "recursive" =>
        \A i, j \in 1..Len(chunks) :
            i < j => chunks[i].src_hi <= chunks[j].src_lo


(***************************************************************************)
(* Vectors, Python dicts and lists shared by the two stores                *)
(* A number is kept as an integer count of 1/Unit; a dot product of two    *)
(* such vectors is a count of 1/(Unit*Unit).                               *)
(***************************************************************************)
RECURSIVE SumTo(_, _)
SumTo(f, n) == IF n = 0 THEN 0 ELSE f[n] + SumTo(f, n - 1)

\* np.dot(a, b) of two vectors of one shape
Dot(a, b) == SumTo([i \in 1..Len(a) |-> a[i] * b[i]], Len(a))

\* floor of the square root
ISqrt(n) == CHOOSE r \in 0..n : r * r <= n /\ n < (r + 1) * (r + 1)

\* np.linalg.norm(v)
Norm(v) == ISqrt(Dot(v, v))

\* the number 1.0: the length of the 3-4-5 vector
Unit == Norm(<<3, 4>>)

\* 1.0 as a dot product
One == Unit * Unit

\* v / norm
DivideBy(v, norm) == [i \in 1..Len(v) |-> (v[i] * Unit) \div norm]

\* a - b
VecSub(a, b) == [i \in 1..Len(a) |-> a[i] - b[i]]

\* the value None inside a metadata or filter dict
NoneValue == "None"

\* dict.get(key) of a metadata dict, kept as a set of <<key, value>> pairs
MetaGet(md, key) ==
    IF \E p \in md : p[1] = key
    THEN (CHOOSE p \in md : p[1] = key)[2]
    ELSE NoneValue

\* all(metadata.get(k) == v for k, v in filters.items())
MetaMatches(md, filters) == \A p \in filters : MetaGet(md, p[1]) = p[2]

\* a Python dict as the sequence of its items [k, v] in insertion order
DictKeys(d) == {d[i].k : i \in 1..Len(d)}

DictGet(d, key) == d[CHOOSE i \in 1..Len(d) : d[i].k = key].v

\* d[key] = val
DictSet(d, key, val) ==
    IF key \in DictKeys(d)
    THEN [i \in 1..Len(d) |-> IF d[i].k = key THEN [k |-> key, v |-> val] ELSE d[i]]
    ELSE Append(d, [k |-> key, v |-> val])

\* d.pop(key, None)
DictPop(d, key) == SelectSeq(d, LAMBDA e : e.k # key)

\* seq[:k]
SliceTo(seq, k) ==
    IF k >= 0 THEN SubSeq(seq, 1, Min(k, Len(seq)))
    ELSE SubSeq(seq, 1, Max(0, Len(seq) + k))

\* list.sort(key=...): position of element i in the stable ascending order
SortRank(keys, i) ==
    Cardinality({j \in 1..Len(keys) :
                    keys[j] < keys[i] \/ (keys[j] = keys[i] /\ j < i)}) + 1

\* list.sort(key=keys): stable, ascending
SortedBy(seq, keys) ==
    [r \in 1..Len(seq) |-> seq[CHOOSE i \in 1..Len(seq) : SortRank(keys, i) = r]]

\* list.sort(key=keys, reverse=True): stable, descending
SortedByReverse(seq, keys) ==
    SortedBy(seq, [i \in 1..Len(keys) |-> 0 - keys[i]])

\* the first n elements of the endless repetition of seq that starts at seq[start]
Cycle(seq, start, n) ==
    [i \in 1..n |-> seq[((start + i - 2) % Len(seq)) + 1]]

(***************************************************************************)
(* MemoryStore                                                             *)
(***************************************************************************)
MsStore == [texts |-> ms_texts, embeddings |-> ms_embeddings,
            metadata |-> ms_metadata]

\* add_texts lines 61-64: normalise unless the norm is zero
NormalizeStored(embedding) ==
    LET norm == Norm(embedding)
    IN  IF norm > 0 THEN DivideBy(embedding, norm) ELSE embedding

\* add_texts lines 68-71: the metadata stored for position i (1-based)
StoredMetadata(metadata, i) ==
    IF metadata.some /\ metadata.v # <<>> /\ i - 1 < Len(metadata.v)
    THEN metadata.v[i] ELSE {}

\* add_texts lines 60-71: the body of the loop for position i (1-based)
MsStoreRow(S, id, txt, embedding, md) ==
    [texts |-> DictSet(S.texts, id, txt),
     embeddings |-> DictSet(S.embeddings, id, NormalizeStored(embedding)),
     metadata |-> DictSet(S.metadata, id, md)]

\* add_texts lines 59-71: for i, (text, embedding) in enumerate(zip(...));
\* ids[i] raises IndexError when ids is shorter than the zip
RECURSIVE MsAddLoop(_, _, _, _, _, _)
MsAddLoop(S, texts, embeddings, metadata, ids, i) ==
    IF i > Min(Len(texts), Len(embeddings)) THEN [store |-> S, raised |-> FALSE]
    ELSE IF i > Len(ids) THEN [store |-> S, raised |-> TRUE]
    ELSE MsAddLoop(MsStoreRow(S, ids[i], texts[i], embeddings[i],
                              StoredMetadata(metadata, i)),
                   texts, embeddings, metadata, ids, i + 1)

\* the pool uuid4() draws from, in the order it hands ids out
UuidPool == <<"u1">>

\* add_texts line 56: [str(uuid4()) for _ in range(len(texts))]
NewUuids(count, n) == [i \in 1..n |-> UuidPool[count + i]]

\* MemoryStore.add_texts
MsAddTexts(S, texts, embeddings, metadata, ids, count) ==
    LET used == IF ids.some THEN ids.v ELSE NewUuids(count, Len(texts))
        r == MsAddLoop(S, texts, embeddings, metadata, used, 1)
    IN  [store |-> r.store,
         outcome |-> IF r.raised THEN "error" ELSE "ok",
         value |-> IF r.raised THEN <<>> ELSE used]

\* search lines 109-114: the score of one stored embedding
MsScore(m, query_array, embedding) ==
    IF m = "cosine" THEN One - Dot(query_array, embedding)
    ELSE IF m = "euclidean" THEN Norm(VecSub(query_array, embedding))
    ELSE 0 - Dot(query_array, embedding)

\* search lines 100-123: for id in self._embeddings
RECURSIVE MsSearchLoop(_, _, _, _, _)
MsSearchLoop(S, m, query_array, filter_metadata, i) ==
    IF i > Len(S.embeddings) THEN <<>>
    ELSE LET id == S.embeddings[i].k
             md == IF id \in DictKeys(S.metadata) THEN DictGet(S.metadata, id) ELSE {}
             rest == MsSearchLoop(S, m, query_array, filter_metadata, i + 1)
         IN  IF /\ filter_metadata.some
                /\ filter_metadata.v # {}
                /\ ~MetaMatches(md, filter_metadata.v)
             THEN rest
             ELSE <<[id |-> id,
                     text |-> DictGet(S.texts, id),
                     metadata |-> DictGet(S.metadata, id),
                     score |-> MsScore(m, query_array, S.embeddings[i].v),
                     embedding |-> S.embeddings[i].v]>> \o rest

\* MemoryStore.search
MsSearch(S, m, query_embedding, k, filter_metadata) ==
    LET query_array == DivideBy(query_embedding, Norm(query_embedding))
        results == MsSearchLoop(S, m, query_array, filter_metadata, 1)
        sorted == SortedBy(results, [i \in 1..Len(results) |-> results[i].score])
    IN  SliceTo(sorted, k)

\* delete that forgets the metadata map
RECURSIVE MsDeleteKeepMetadata(_, _)
MsDeleteKeepMetadata(S, ids) ==
    IF ids = <<>> THEN S
    ELSE MsDeleteKeepMetadata([texts |-> DictPop(S.texts, ids[1]),
                               embeddings |-> DictPop(S.embeddings, ids[1]),
                               metadata |-> S.metadata],
                              Tail(ids))

\* delete lines 142-145: for id in ids
RECURSIVE MsDelete(_, _)
MsDelete(S, ids) ==
    IF ids = <<>> THEN S
    ELSE MsDelete([texts |-> DictPop(S.texts, ids[1]),
                   embeddings |-> DictPop(S.embeddings, ids[1]),
                   metadata |-> DictPop(S.metadata, ids[1])],
                  Tail(ids))

\* MemoryStore.get_by_id: the list holding the result, empty for None
MsGetById(S, id) ==
    IF id \notin DictKeys(S.texts) THEN <<>>
    ELSE <<[id |-> id,
            text |-> DictGet(S.texts, id),
            metadata |-> IF id \in DictKeys(S.metadata)
                         THEN DictGet(S.metadata, id) ELSE {},
            score |-> 0,
            embedding |-> DictGet(S.embeddings, id)]>>

\* MemoryStore.get_stats
MsGetStats(S) ==
    [total_texts |-> Len(S.texts), total_embeddings |-> Len(S.embeddings)]


(***************************************************************************)
(* MemoryStore as a state machine: a call, then its return                 *)
(***************************************************************************)
\* the documents callers add: text, raw embedding and metadata
Docs ==
    <<[text |-> "t1", embedding |-> <<10, 0>>, metadata |-> {<<"source", "doc1">>}],
      [text |-> "t2", embedding |-> <<3, 4>>, metadata |-> {}]>>

\* the ids callers pass
ExplicitIds == <<"x", "y">>

\* list lengths of one add call; nm, ni = -1 stand for an omitted argument.
\* Either every list given has the length of texts, or exactly one of
\* embeddings, metadata and ids has another length and the rest are given
AddShapes ==
    {sh \in [nt : 0..MaxBatch, ne : 0..MaxBatch,
             nm : (-1)..MaxBatch, ni : (-1)..MaxBatch] :
        \/ sh.ne = sh.nt /\ sh.nm \in {-1, sh.nt} /\ sh.ni \in {-1, sh.nt}
        \/ sh.ne # sh.nt /\ sh.nm = sh.nt /\ sh.ni = sh.nt
        \/ sh.ne = sh.nt /\ sh.nm \notin {-1, sh.nt} /\ sh.ni = sh.nt
        \/ sh.ne = sh.nt /\ sh.nm = sh.nt /\ sh.ni \notin {-1, sh.nt}}

AddArgs(start, sh) ==
    LET rows == Cycle(Docs, start, MaxBatch)
    IN  [op |-> "add_texts",
         texts |-> [i \in 1..sh.nt |-> rows[i].text],
         embeddings |-> [i \in 1..sh.ne |-> rows[i].embedding],
         metadata |-> IF sh.nm = -1 THEN None
                      ELSE Some([i \in 1..sh.nm |-> rows[i].metadata]),
         ids |-> IF sh.ni = -1 THEN None
                 ELSE Some(Cycle(ExplicitIds, 1, sh.ni))]

\* the input contract of add: every list given has the length of texts
WellFormedAdd(c) ==
    /\ Len(c.embeddings) = Len(c.texts)
    /\ c.metadata.some => Len(c.metadata.v) = Len(c.texts)
    /\ c.ids.some => Len(c.ids.v) = Len(c.texts)

\* the caller's record of the adds that returned: id -> [text, metadata],
\* last add wins
RECURSIVE LiveAfterAdd(_, _, _, _)
LiveAfterAdd(lv, c, ids, i) ==
    IF i > Min(Len(c.texts), Len(ids)) THEN lv
    ELSE LET rec == [text |-> c.texts[i],
                     metadata |-> IF c.metadata.some /\ i <= Len(c.metadata.v)
                                  THEN c.metadata.v[i] ELSE {}]
         IN  LiveAfterAdd([id \in DOMAIN lv \cup {ids[i]} |->
                              IF id = ids[i] THEN rec ELSE lv[id]],
                          c, ids, i + 1)

Queries == {<<5, 0>>, <<6, 8>>}

FilterArgs ==
    {None, Some({}), Some({<<"source", "doc1">>}), Some({<<"source", NoneValue>>})}

LookupIds == <<"x", "y", "u1", "z">>

\* the id lists callers delete: runs of LookupIds, absent ids included
DeleteArgs ==
    {Cycle(LookupIds, start, n) : start \in 1..Len(LookupIds), n \in 0..MaxBatch}

\* MemoryStore.__init__
InitStore ==
    /\ pc = "ms_idle"
    /\ embedding_dimension = 2
    /\ metric \in {"cosine", "euclidean", "dot"}
    /\ ms_texts = <<>>
    /\ ms_embeddings = <<>>
    /\ ms_metadata = <<>>
    /\ uuid_count = 0
    /\ recording = FALSE
    /\ live = <<>>
    /\ ChunkParked /\ MvParked /\ ChromaParked /\ NoCall /\ RlParked

\* MemoryStore.__init__ with the default metric, the history of adds recorded
InitHistory ==
    /\ pc = "ms_idle"
    /\ embedding_dimension = 2
    /\ metric = "cosine"
    /\ ms_texts = <<>>
    /\ ms_embeddings = <<>>
    /\ ms_metadata = <<>>
    /\ uuid_count = 0
    /\ recording = TRUE
    /\ live = <<>>
    /\ ChunkParked /\ MvParked /\ ChromaParked /\ NoCall /\ RlParked

\* await store.add_texts(texts, embeddings, metadata, ids)
MsCallAddTexts ==
    /\ pc = "ms_idle"
    /\ \E start \in 1..Len(Docs), sh \in AddShapes :
         LET c == AddArgs(start, sh)
             fresh == IF c.ids.some THEN 0 ELSE Len(c.texts)
             r == MsAddTexts(MsStore, c.texts, c.embeddings, c.metadata, c.ids,
                             uuid_count)
         IN  /\ uuid_count + fresh <= Len(UuidPool)
             /\ ms_texts' = r.store.texts
             /\ ms_embeddings' = r.store.embeddings
             /\ ms_metadata' = r.store.metadata
             /\ uuid_count' = uuid_count + fresh
             /\ live' = IF recording /\ r.outcome = "ok"
                        THEN LiveAfterAdd(live, c, r.value, 1)
                        ELSE live
             /\ call' = c
             /\ result' = [outcome |-> r.outcome, value |-> r.value]
    /\ pc' = "ms_returned"
    /\ UNCHANGED <<metric, recording, chunk_vars, chroma_vars, embedding_dimension, rl_vars, tasks, mv_vars>>

\* await store.search(query_embedding, k, filter_metadata)
MsCallSearch ==
    /\ pc = "ms_idle"
    /\ \E q \in Queries, k \in 0..MaxK, f \in FilterArgs :
         /\ call' = [op |-> "search", query_embedding |-> q, k |-> k,
                     filter_metadata |-> f]
         /\ result' = [outcome |-> "ok", value |-> MsSearch(MsStore, metric, q, k, f)]
    /\ pc' = "ms_returned"
    /\ UNCHANGED <<ms_vars, chunk_vars, chroma_vars, embedding_dimension, rl_vars, tasks, mv_vars>>

\* await store.delete(ids)
MsCallDelete ==
    /\ pc = "ms_idle"
    /\ \E ids \in DeleteArgs :
         LET S == MsDelete(MsStore, ids)
         IN  /\ ms_texts' = S.texts
             /\ ms_embeddings' = S.embeddings
             /\ ms_metadata' = S.metadata
             /\ live' = [id \in DOMAIN live \ {ids[i] : i \in 1..Len(ids)} |-> live[id]]
             /\ call' = [op |-> "delete", ids |-> ids]
             /\ result' = [outcome |-> "ok", value |-> <<TRUE>>]
    /\ pc' = "ms_returned"
    /\ UNCHANGED <<metric, uuid_count, recording, chunk_vars, chroma_vars, embedding_dimension, rl_vars, tasks, mv_vars>>

\* await store.get_by_id(id)
MsCallGetById ==
    /\ pc = "ms_idle"
    /\ \E i \in 1..Len(LookupIds) :
         /\ call' = [op |-> "get_by_id", id |-> LookupIds[i]]
         /\ result' = [outcome |-> "ok", value |-> MsGetById(MsStore, LookupIds[i])]
    /\ pc' = "ms_returned"
    /\ UNCHANGED <<ms_vars, chunk_vars, chroma_vars, embedding_dimension, rl_vars, tasks, mv_vars>>

\* await store.clear()
MsCallClear ==
    /\ pc = "ms_idle"
    /\ ms_texts' = <<>>
    /\ ms_embeddings' = <<>>
    /\ ms_metadata' = <<>>
    /\ live' = <<>>
    /\ call' = [op |-> "clear"]
    /\ result' = [outcome |-> "ok", value |-> <<TRUE>>]
    /\ pc' = "ms_returned"
    /\ UNCHANGED <<metric, uuid_count, recording, chunk_vars, chroma_vars, embedding_dimension, rl_vars, tasks, mv_vars>>

\* the caller takes the result; the store is ready for the next call
MsReturn ==
    /\ pc = "ms_returned"
    /\ pc' = "ms_idle"
    /\ call' = [op |-> "none"]
    /\ result' = [outcome |-> "none", value |-> <<>>]
    /\ UNCHANGED <<ms_vars, chunk_vars, chroma_vars, embedding_dimension, rl_vars, tasks, mv_vars>>

NextStore ==
    \/ MsCallAddTexts
    \/ MsCallSearch
    \/ MsCallDelete
    \/ MsCallGetById
    \/ MsCallClear
    \/ MsReturn

SpecStore == InitStore /\ [][NextStore]_vars

SpecHistory == InitHistory /\ [][NextStore]_vars


(***************************************************************************)
(* MemoryVectorStore                                                       *)
(***************************************************************************)
MvStore == [texts |-> mv_texts, embeddings |-> mv_embeddings,
            metadatas |-> mv_metadatas]

\* the injected EmbeddingsProvider: text -> embedding, queries included
Embed ==
    [t \in {"t1", "t2", "t3", "q1", "q2"} |->
        IF t = "t1" THEN <<6, 8>>
        ELSE IF t = "t2" THEN <<4, 3>>
        ELSE IF t = "t3" THEN <<5, 0>>
        ELSE IF t = "q1" THEN <<0, 5>>
        ELSE <<5, 0>>]

\* embeddings_provider.get_embeddings_sync(texts)
GetEmbeddingsSync(texts) == [i \in 1..Len(texts) |-> Embed[texts[i]]]

\* MemoryVectorStore.add_text
MvAddText(S, txt, metadata, embedding) ==
    [texts |-> Append(S.texts, txt),
     embeddings |-> Append(S.embeddings,
                           IF embedding.some THEN embedding.v
                           ELSE GetEmbeddingsSync(<<txt>>)[1]),
     metadatas |-> Append(S.metadatas, IF metadata.some THEN metadata.v ELSE {})]

\* MemoryVectorStore.add_texts
MvAddTexts(S, texts, metadatas, embeddings) ==
    [texts |-> S.texts \o texts,
     embeddings |-> S.embeddings \o (IF embeddings.some THEN embeddings.v
                                     ELSE GetEmbeddingsSync(texts)),
     metadatas |-> S.metadatas \o (IF metadatas.some THEN metadatas.v
                                   ELSE [i \in 1..Len(texts) |-> {}])]

\* similarity_search lines 91-101: the (index, similarity) pairs that pass;
\* self.metadatas[i] raises IndexError when metadatas is the shorter list
RECURSIVE MvScan(_, _, _, _, _)
MvScan(S, query_embedding, min_score, filters, i) ==
    IF i > Len(S.embeddings) THEN [raised |-> FALSE, results |-> <<>>]
    ELSE LET filtering == filters.some /\ filters.v # {}
             similarity == Dot(S.embeddings[i], query_embedding)
             rest == MvScan(S, query_embedding, min_score, filters, i + 1)
         IN  IF filtering /\ i > Len(S.metadatas)
             THEN [raised |-> TRUE, results |-> <<>>]
             ELSE IF filtering /\ ~MetaMatches(S.metadatas[i], filters.v) THEN rest
             ELSE IF similarity >= min_score
             THEN [raised |-> rest.raised,
                   results |-> <<[idx |-> i, score |-> similarity]>> \o rest.results]
             ELSE rest

\* similarity_search without lines 81-82: np.dot of an empty array and the
\* query raises
MvSimilaritySearchUnguarded(S, query_embedding, k, min_score, filters) ==
    LET scan == MvScan(S, query_embedding, min_score, filters, 1)
        sorted == SortedByReverse(scan.results,
                      [i \in 1..Len(scan.results) |-> scan.results[i].score])
        top == SliceTo(sorted, k)
    IN  IF \/ S.embeddings = <<>>
           \/ scan.raised
           \/ \E i \in 1..Len(top) :
                  top[i].idx > Len(S.texts) \/ top[i].idx > Len(S.metadatas)
        THEN [outcome |-> "error", value |-> <<>>]
        ELSE [outcome |-> "ok",
              value |-> [i \in 1..Len(top) |->
                            [chunk |-> [text |-> S.texts[top[i].idx],
                                        metadata |-> S.metadatas[top[i].idx],
                                        start_char |-> 0,
                                        chunk_index |-> i - 1],
                             score |-> top[i].score]]]

\* MemoryVectorStore.similarity_search
MvSimilaritySearch(S, query_embedding, k, min_score, filters) ==
    IF S.embeddings = <<>> THEN [outcome |-> "ok", value |-> <<>>]
    ELSE LET scan == MvScan(S, query_embedding, min_score, filters, 1)
             sorted == SortedByReverse(scan.results,
                           [i \in 1..Len(scan.results) |-> scan.results[i].score])
             top == SliceTo(sorted, k)
         IN  IF \/ scan.raised
                \/ \E i \in 1..Len(top) :
                       top[i].idx > Len(S.texts) \/ top[i].idx > Len(S.metadatas)
             THEN [outcome |-> "error", value |-> <<>>]
             ELSE [outcome |-> "ok",
                   value |-> [i \in 1..Len(top) |->
                                 [chunk |-> [text |-> S.texts[top[i].idx],
                                             metadata |-> S.metadatas[top[i].idx],
                                             start_char |-> 0,
                                             chunk_index |-> i - 1],
                                  score |-> top[i].score]]]

\* MemoryVectorStore.get_embedding
MvGetEmbedding(txt) == GetEmbeddingsSync(<<txt>>)[1]

(***************************************************************************)
(* SemanticRetrieval                                                       *)
(***************************************************************************)
\* RetrievalConfig.__post_init__: TRUE iff construction raises no ValueError
RetrievalConfigValid(c) ==
    /\ ~(c.top_k <= 0)
    /\ 0 <= c.min_similarity /\ c.min_similarity <= One
    /\ 0 <= c.duplicate_threshold /\ c.duplicate_threshold <= One

\* retrieve lines 143-150
ToRetrievedChunks(results) ==
    [i \in 1..Len(results) |->
        [chunk |-> results[i].chunk, similarity |-> results[i].score, rank |-> i]]

\* ranks left as the candidates had them
KeepRanks(cs) == cs

\* retrieve lines 156-157 and 163-164, _rerank_results lines 190-191
UpdateRanks(cs) == [i \in 1..Len(cs) |-> [cs[i] EXCEPT !.rank = i]]

\* a similarity equal to the threshold counted as a duplicate
IsDuplicateInclusive(chunk_embedding, seen_embeddings, duplicate_threshold) ==
    \E i \in 1..Len(seen_embeddings) :
        Dot(chunk_embedding, seen_embeddings[i]) >= duplicate_threshold

\* _filter_duplicates lines 99-105: too similar to a previously kept embedding
IsDuplicate(chunk_embedding, seen_embeddings, duplicate_threshold) ==
    \E i \in 1..Len(seen_embeddings) :
        Dot(chunk_embedding, seen_embeddings[i]) > duplicate_threshold

\* _filter_duplicates lines 92-109: the loop, from the i-th chunk on
RECURSIVE FilterLoop(_, _, _, _, _)
FilterLoop(cs, cfg, filtered, seen_embeddings, i) ==
    IF i > Len(cs) THEN filtered
    ELSE LET raw == MvGetEmbedding(cs[i].chunk.text)
             chunk_embedding == DivideBy(raw, Norm(raw))
         IN  IF IsDuplicate(chunk_embedding, seen_embeddings, cfg.duplicate_threshold)
             THEN FilterLoop(cs, cfg, filtered, seen_embeddings, i + 1)
             ELSE FilterLoop(cs, cfg, Append(filtered, cs[i]),
                             Append(seen_embeddings, chunk_embedding), i + 1)

\* RetrievalStrategy._filter_duplicates
FilterDuplicates(cs, cfg) ==
    IF cs = <<>> THEN cs ELSE FilterLoop(cs, cfg, <<>>, <<>>, 1)

\* the sort ascending in place of descending
RerankAscending(cs) ==
    UpdateRanks(SortedBy(cs, [i \in 1..Len(cs) |-> cs[i].similarity]))

\* SemanticRetrieval._rerank_results
RerankResults(cs) ==
    UpdateRanks(SortedByReverse(cs, [i \in 1..Len(cs) |-> cs[i].similarity]))

\* retrieve lines 153-157
FilterStep(cs, cfg) ==
    IF cfg.filter_duplicates THEN UpdateRanks(FilterDuplicates(cs, cfg)) ELSE cs

\* retrieve lines 160-164
RerankStep(cs, cfg) ==
    IF cfg.rerank_results THEN UpdateRanks(RerankResults(cs)) ELSE cs

\* SemanticRetrieval.retrieve; candidates and filtered record the values of
\* chunks before and after _filter_duplicates, embedded the texts passed to
\* embeddings_provider.get_embeddings and searches the arguments of the calls
\* of vector_store.similarity_search
Retrieve(S, cfg, query, filters) ==
    LET query_embedding == Embed[query]
        k == IF cfg.filter_duplicates THEN cfg.top_k * 2 ELSE cfg.top_k
        search == MvSimilaritySearch(S, query_embedding, k, cfg.min_similarity,
                                     filters)
        candidates == ToRetrievedChunks(search.value)
        searches == <<[query_embedding |-> query_embedding, k |-> k,
                       min_score |-> cfg.min_similarity, filters |-> filters]>>
    IN  IF search.outcome = "error"
        THEN [outcome |-> "error", value |-> <<>>, candidates |-> <<>>,
              filtered |-> <<>>, embedded |-> <<query>>, searches |-> searches]
        ELSE [outcome |-> "ok",
              value |-> SliceTo(RerankStep(FilterStep(candidates, cfg), cfg),
                                cfg.top_k),
              candidates |-> candidates,
              filtered |-> IF cfg.filter_duplicates
                           THEN FilterDuplicates(candidates, cfg) ELSE candidates,
              embedded |-> <<query>>,
              searches |-> searches]


(***************************************************************************)
(* MemoryVectorStore and SemanticRetrieval as a state machine              *)
(***************************************************************************)
StoredTexts == <<"t1", "t2", "t3">>

QueryTexts == {"q1", "q2"}

\* the metadata a caller attaches to a text
MetadataOf(txt) == IF txt = "t1" THEN {<<"source", "doc1">>} ELSE {}

MvFilterArgs == {None, Some({<<"source", "doc1">>})}

\* min_score and min_similarity as dot products: 0.0 and 0.6
MinScores == {0, 3 * Unit}

\* duplicate_threshold: 0.76 and 0.96
DuplicateThresholds == {One - 6, One - 1}

\* list lengths of one MemoryVectorStore.add_texts call; -1 stands for an
\* omitted argument; at most one of metadatas and embeddings has another
\* length than texts
MvAddShapes ==
    {sh \in [nt : 0..MaxBatch, nm : (-1)..MaxBatch, ne : (-1)..MaxBatch] :
        \/ sh.nm \in {-1, sh.nt} /\ sh.ne \in {-1, sh.nt}
        \/ sh.nm \notin {-1, sh.nt} /\ sh.ne = -1
        \/ sh.nm = sh.nt /\ sh.ne \notin {-1, sh.nt}}

MvAddArgs(start, sh) ==
    LET rows == Cycle(StoredTexts, start, MaxBatch)
    IN  [op |-> "add_texts",
         texts |-> [i \in 1..sh.nt |-> rows[i]],
         metadatas |-> IF sh.nm = -1 THEN None
                       ELSE Some([i \in 1..sh.nm |-> MetadataOf(rows[i])]),
         embeddings |-> IF sh.ne = -1 THEN None
                        ELSE Some([i \in 1..sh.ne |-> Embed[rows[i]]])]

\* the input contract of MemoryVectorStore.add_texts
MvWellFormedAdd(c) ==
    /\ c.metadatas.some => Len(c.metadatas.v) = Len(c.texts)
    /\ c.embeddings.some => Len(c.embeddings.v) = Len(c.texts)

RetrievalConfigs ==
    {c \in [top_k : 1..MaxTopK,
            min_similarity : MinScores,
            rerank_results : BOOLEAN,
            filter_duplicates : BOOLEAN,
            duplicate_threshold : DuplicateThresholds] : RetrievalConfigValid(c)}

\* MemoryVectorStore.__init__
InitVector ==
    /\ pc = "mv_idle"
    /\ mv_texts = <<>>
    /\ mv_embeddings = <<>>
    /\ mv_metadatas = <<>>
    /\ ChunkParked /\ MsParked /\ ChromaParked /\ NoCall /\ RlParked

\* store.add_text(text, metadata)
MvCallAddText ==
    /\ pc = "mv_idle"
    /\ Max(Len(mv_texts), Max(Len(mv_embeddings), Len(mv_metadatas))) < MaxStore
    /\ \E i \in 1..Len(StoredTexts), with_metadata \in BOOLEAN :
         LET txt == StoredTexts[i]
             metadata == IF with_metadata THEN Some(MetadataOf(txt)) ELSE None
             S == MvAddText(MvStore, txt, metadata, None)
         IN  /\ mv_texts' = S.texts
             /\ mv_embeddings' = S.embeddings
             /\ mv_metadatas' = S.metadatas
             /\ call' = [op |-> "add_text", text |-> txt, metadata |-> metadata]
             /\ result' = [outcome |-> "ok", value |-> <<>>]
    /\ pc' = "mv_returned"
    /\ UNCHANGED <<chunk_vars, chroma_vars, embedding_dimension, rl_vars, tasks, ms_vars>>

\* store.add_texts(texts, metadatas, embeddings)
MvCallAddTexts ==
    /\ pc = "mv_idle"
    /\ \E start \in 1..Len(StoredTexts), sh \in MvAddShapes :
         LET c == MvAddArgs(start, sh)
             S == MvAddTexts(MvStore, c.texts, c.metadatas, c.embeddings)
         IN  /\ Len(S.texts) <= MaxStore
             /\ Len(S.embeddings) <= MaxStore
             /\ Len(S.metadatas) <= MaxStore
             /\ mv_texts' = S.texts
             /\ mv_embeddings' = S.embeddings
             /\ mv_metadatas' = S.metadatas
             /\ call' = c
             /\ result' = [outcome |-> "ok", value |-> <<>>]
    /\ pc' = "mv_returned"
    /\ UNCHANGED <<chunk_vars, chroma_vars, embedding_dimension, rl_vars, tasks, ms_vars>>

\* store.similarity_search(query_embedding, k, min_score, filters)
MvCallSimilaritySearch ==
    /\ pc = "mv_idle"
    /\ \E q \in QueryTexts, k \in 0..MaxK, min_score \in MinScores,
          f \in MvFilterArgs :
         /\ call' = [op |-> "similarity_search", query_embedding |-> Embed[q],
                     k |-> k, min_score |-> min_score, filters |-> f]
         /\ result' = MvSimilaritySearch(MvStore, Embed[q], k, min_score, f)
    /\ pc' = "mv_returned"
    /\ UNCHANGED <<chunk_vars, chroma_vars, embedding_dimension, rl_vars, tasks, ms_vars, mv_vars>>

\* store.clear()
MvCallClear ==
    /\ pc = "mv_idle"
    /\ mv_texts' = <<>>
    /\ mv_embeddings' = <<>>
    /\ mv_metadatas' = <<>>
    /\ call' = [op |-> "clear"]
    /\ result' = [outcome |-> "ok", value |-> <<>>]
    /\ pc' = "mv_returned"
    /\ UNCHANGED <<chunk_vars, chroma_vars, embedding_dimension, rl_vars, tasks, ms_vars>>

\* SemanticRetrieval(store, config).retrieve(query, filters)
CallRetrieve ==
    /\ pc = "mv_idle"
    /\ \E cfg \in RetrievalConfigs, q \in QueryTexts, f \in MvFilterArgs :
         /\ call' = [op |-> "retrieve", config |-> cfg, query |-> q, filters |-> f]
         /\ result' = Retrieve(MvStore, cfg, q, f)
    /\ pc' = "mv_returned"
    /\ UNCHANGED <<chunk_vars, chroma_vars, embedding_dimension, rl_vars, tasks, ms_vars, mv_vars>>

\* the caller takes the result; the store is ready for the next call
MvReturn ==
    /\ pc = "mv_returned"
    /\ pc' = "mv_idle"
    /\ call' = [op |-> "none"]
    /\ result' = [outcome |-> "none", value |-> <<>>]
    /\ UNCHANGED <<chunk_vars, chroma_vars, embedding_dimension, rl_vars, tasks, ms_vars, mv_vars>>

NextVector ==
    \/ MvCallAddText
    \/ MvCallAddTexts
    \/ MvCallSimilaritySearch
    \/ MvCallClear
    \/ MvReturn

NextRetrieval ==
    \/ MvCallAddText
    \/ MvCallClear
    \/ CallRetrieve
    \/ MvReturn

\* a store filled text by text, queried through SemanticRetrieval
SpecRetrieval == InitVector /\ [][NextRetrieval]_vars

\* a MemoryVectorStore on its own
SpecVector == InitVector /\ [][NextVector]_vars

\* either of the two stores
SpecIndex == (InitStore \/ InitVector) /\ [][NextStore \/ NextVector]_vars


(***************************************************************************)
(* Properties of retrieval                                                 *)
(***************************************************************************)
\* cosine similarity of a and b strictly above t (t counted in 1/One)
CosineAbove(a, b, t) == Dot(a, b) * One > t * Norm(a) * Norm(b)

RetrieveReturned == pc = "mv_returned" /\ call.op = "retrieve"

\* the positions, among the candidates, of the chunks _filter_duplicates kept
AcceptedPositions == {result.filtered[i].rank : i \in 1..Len(result.filtered)}

CandidateEmbedding(i) == Embed[result.candidates[i].chunk.text]

\* C5: with filter_duplicates enabled a candidate is dropped if and only if
\* its cosine similarity to some previously accepted candidate is strictly
\* greater than duplicate_threshold; accepted candidates keep their order,
\* the first candidate is accepted, and no two returned chunks have cosine
\* similarity above duplicate_threshold.
C5_DuplicateFilter ==
    (RetrieveReturned /\ call.config.filter_duplicates) =>
        LET cands == result.candidates
            t == call.config.duplicate_threshold
            out == result.value
        IN  /\ result.filtered =
                   SelectSeq(cands, LAMBDA c : c.rank \in AcceptedPositions)
            /\ \A i \in 1..Len(cands) :
                   (i \notin AcceptedPositions) <=>
                       \E j \in AcceptedPositions :
                           /\ j < i
                           /\ CosineAbove(CandidateEmbedding(i),
                                          CandidateEmbedding(j), t)
            /\ cands # <<>> => 1 \in AcceptedPositions
            /\ \A i, j \in 1..Len(out) :
                   i # j => ~CosineAbove(Embed[out[i].chunk.text],
                                         Embed[out[j].chunk.text], t)

\* a candidate was dropped and a later one, similar to the dropped one only,
\* was accepted
C5_Witness ==
    /\ RetrieveReturned
    /\ call.config.filter_duplicates
    /\ Len(result.candidates) = 3
    /\ AcceptedPositions = {1, 3}
    /\ CosineAbove(CandidateEmbedding(3), CandidateEmbedding(2),
                   call.config.duplicate_threshold)
    /\ Len(result.value) = 2

\* C6: for every combination of filter_duplicates and rerank_results the
\* list retrieve returns has length n <= top_k and its element at 1-based
\* position i has rank i.
C6_DenseRanks ==
    RetrieveReturned =>
        /\ result.outcome = "ok"
        /\ Len(result.value) <= call.config.top_k
        /\ \A i \in 1..Len(result.value) : result.value[i].rank = i

\* filtering dropped a candidate from the middle and the cut to top_k
\* dropped another
C6_Witness ==
    /\ RetrieveReturned
    /\ call.config.filter_duplicates
    /\ Len(result.candidates) > Len(result.filtered)
    /\ 1 \in AcceptedPositions /\ 2 \notin AcceptedPositions
    /\ Len(result.value) = call.config.top_k
    /\ Len(result.value) = 2

(***************************************************************************)
(* Properties of the stores                                                *)
(***************************************************************************)
\* the stored records of MemoryStore that pass the filter of the search
MsPassing ==
    {i \in 1..Len(ms_embeddings) :
        \/ ~call.filter_metadata.some
        \/ MetaMatches(DictGet(ms_metadata, ms_embeddings[i].k),
                       call.filter_metadata.v)}

MsRecordScore(i) ==
    MsScore(metric,
            DivideBy(call.query_embedding, Norm(call.query_embedding)),
            ms_embeddings[i].v)

\* the stored records of MemoryVectorStore that pass filter and min_score
MvPassing ==
    {i \in 1..Len(mv_embeddings) :
        /\ \/ ~call.filters.some
           \/ MetaMatches(mv_metadatas[i], call.filters.v)
        /\ Dot(mv_embeddings[i], call.query_embedding) >= call.min_score}

\* C7: a search returns exactly min(k, m) results, m the number of stored
\* records that pass the metadata filter (and min_score), best score first,
\* and no record left out has a strictly better score than a returned one.
C7_SearchTopK ==
    /\ (pc = "ms_returned" /\ call.op = "search") =>
           LET res == result.value
               returned == {i \in MsPassing :
                               \E j \in 1..Len(res) : res[j].id = ms_embeddings[i].k}
           IN  /\ result.outcome = "ok"
               /\ Len(res) = Min(call.k, Cardinality(MsPassing))
               /\ Cardinality(returned) = Len(res)
               /\ \A j \in 1..Len(res) :
                      \E i \in returned :
                          /\ res[j].id = ms_embeddings[i].k
                          /\ res[j].score = MsRecordScore(i)
               /\ \A a, b \in 1..Len(res) : a < b => res[a].score <= res[b].score
               /\ \A i \in MsPassing \ returned, j \in 1..Len(res) :
                      ~(MsRecordScore(i) < res[j].score)
    /\ (pc = "mv_returned" /\ call.op = "similarity_search") =>
           /\ result.outcome = "ok"
           /\ LET res == result.value
                  n == Len(res)
              IN  /\ n = Min(call.k, Cardinality(MvPassing))
                  /\ \A j \in 1..n :
                         \E i \in MvPassing :
                             /\ i <= Len(mv_texts) /\ i <= Len(mv_metadatas)
                             /\ res[j].chunk.text = mv_texts[i]
                             /\ res[j].chunk.metadata = mv_metadatas[i]
                             /\ res[j].score = Dot(mv_embeddings[i],
                                                   call.query_embedding)
                  /\ \A a, b \in 1..n : a < b => res[a].score >= res[b].score
                  /\ n > 0 =>
                         Cardinality({i \in MvPassing :
                             Dot(mv_embeddings[i], call.query_embedding)
                                 > res[n].score})
                         = Cardinality({j \in 1..n : res[j].score > res[n].score})

\* C8: an add call whose lists differ in length fails with an error and
\* stores nothing, in MemoryStore and in MemoryVectorStore.
C8_MismatchedAddStoresNothing ==
    [][/\ (pc = "ms_idle" /\ call'.op = "add_texts" /\ ~WellFormedAdd(call'))
           => /\ result'.outcome = "error"
              /\ ms_texts' = ms_texts
              /\ ms_embeddings' = ms_embeddings
              /\ ms_metadata' = ms_metadata
       /\ (pc = "mv_idle" /\ call'.op = "add_texts" /\ ~MvWellFormedAdd(call'))
           => /\ result'.outcome = "error"
              /\ mv_texts' = mv_texts
              /\ mv_embeddings' = mv_embeddings
              /\ mv_metadatas' = mv_metadatas]_vars

IdsOf(ids) == {ids[i] : i \in 1..Len(ids)}

\* C9: delete(ids) removes exactly the records whose id is in ids, leaves
\* text, embedding and metadata of every other record unchanged, raises no
\* error for absent ids, leaves the store unchanged when all ids are absent,
\* and afterwards get_by_id of each deleted id finds nothing.
C9_DeleteFrame ==
    [][(pc = "ms_idle" /\ call'.op = "delete") =>
          LET D == IdsOf(call'.ids)
              after == [texts |-> ms_texts', embeddings |-> ms_embeddings',
                        metadata |-> ms_metadata']
          IN  /\ result'.outcome = "ok"
              /\ DictKeys(ms_texts') = DictKeys(ms_texts) \ D
              /\ DictKeys(ms_embeddings') = DictKeys(ms_embeddings) \ D
              /\ DictKeys(ms_metadata') = DictKeys(ms_metadata) \ D
              /\ \A id \in DictKeys(ms_texts') :
                     DictGet(ms_texts', id) = DictGet(ms_texts, id)
              /\ \A id \in DictKeys(ms_embeddings') :
                     DictGet(ms_embeddings', id) = DictGet(ms_embeddings, id)
              /\ \A id \in DictKeys(ms_metadata') :
                     DictGet(ms_metadata', id) = DictGet(ms_metadata, id)
              /\ (D \cap DictKeys(ms_texts) = {}) =>
                     /\ ms_texts' = ms_texts
                     /\ ms_embeddings' = ms_embeddings
                     /\ ms_metadata' = ms_metadata
              /\ \A id \in D : MsGetById(after, id) = <<>>]_vars

\* a delete of a stored and an absent id has returned, another record stays
C9_Witness ==
    /\ pc = "ms_returned"
    /\ call.op = "delete"
    /\ call.ids = <<"y", "u1">>
    /\ uuid_count = 0
    /\ DictKeys(ms_texts) = {"x"}
    /\ DictKeys(ms_metadata) = {"x"}

\* C10: get_by_id(id) returns a record iff id was added and not deleted or
\* cleared since, with the text and metadata of the most recent add under
\* that id; the three maps have the same key set; get_stats reports
\* total_texts = total_embeddings = the number of such ids; after clear that
\* number is 0.
C10_StoreMatchesHistory ==
    (recording /\ pc \in {"ms_idle", "ms_returned"}) =>
        /\ \A i \in 1..Len(LookupIds) :
               LET id == LookupIds[i]
                   r == MsGetById(MsStore, id)
               IN  /\ (r # <<>>) <=> (id \in DOMAIN live)
                   /\ r # <<>> /\ id \in DOMAIN live =>
                          /\ r[1].text = live[id].text
                          /\ r[1].metadata = live[id].metadata
        /\ DictKeys(ms_texts) = DictKeys(ms_embeddings)
        /\ DictKeys(ms_texts) = DictKeys(ms_metadata)
        /\ MsGetStats(MsStore).total_texts = Cardinality(DOMAIN live)
        /\ MsGetStats(MsStore).total_embeddings = Cardinality(DOMAIN live)
        /\ call.op = "clear" => MsGetStats(MsStore).total_texts = 0


(***************************************************************************)
(* ChromaStore                                                             *)
(***************************************************************************)
\* add_texts line 89: the metadata made up when none is passed; the timestamp
\* is datetime.now().isoformat()
DefaultMetadata == {<<"type", "text">>, <<"timestamp", "now">>}

\* add_texts lines 96 and 98: [str(i) for i in range(len(texts))]
RangeIds(n) == [i \in 1..n |-> ToString(i - 1)]

\* what collection.add does with ids the collection already holds: chromadb
\* either rejects the whole batch or leaves those records as they are
DuplicatePolicies == {"reject", "skip"}

\* collection.add(documents, embeddings, metadatas, ids): rejects an empty
\* batch, lists of different lengths and ids repeated in the batch
RECURSIVE CollectionAdd(_, _, _, _, _, _, _)
CollectionAdd(coll, documents, embeddings, metadatas, ids, policy, i) ==
    IF i = 1 /\ (\/ ids = <<>>
                 \/ Len(documents) # Len(ids)
                 \/ Len(embeddings) # Len(ids)
                 \/ Len(metadatas) # Len(ids)
                 \/ \E a, b \in 1..Len(ids) : a # b /\ ids[a] = ids[b]
                 \/ policy = "reject" /\ \E a \in 1..Len(ids) : ids[a] \in DictKeys(coll))
    THEN [collection |-> coll, raised |-> TRUE]
    ELSE IF i > Len(ids) THEN [collection |-> coll, raised |-> FALSE]
    ELSE CollectionAdd(IF ids[i] \in DictKeys(coll) THEN coll
                       ELSE DictSet(coll, ids[i],
                                    [document |-> documents[i],
                                     embedding |-> embeddings[i],
                                     metadata |-> metadatas[i]]),
                       documents, embeddings, metadatas, ids, policy, i + 1)

\* add_texts lines 80-86: embeddings_np / norms
ChromaNormalize(embeddings) ==
    [i \in 1..Len(embeddings) |-> DivideBy(embeddings[i], Norm(embeddings[i]))]

\* ChromaStore.add_texts; np.linalg.norm(axis=1) raises on an empty list
ChromaAddTexts(coll, texts, embeddings, metadata, ids, policy) ==
    LET used == IF ids.some /\ ids.v # <<>> THEN ids.v ELSE RangeIds(Len(texts))
        metadatas == IF metadata.some THEN metadata.v
                     ELSE [i \in 1..Len(texts) |-> DefaultMetadata]
        r == IF embeddings = <<>> THEN [collection |-> coll, raised |-> TRUE]
             ELSE CollectionAdd(coll, texts, ChromaNormalize(embeddings),
                                metadatas, used, policy, 1)
    IN  [collection |-> r.collection,
         outcome |-> IF r.raised THEN "error" ELSE "ok",
         value |-> IF r.raised THEN <<>> ELSE used]

\* ChromaStore.__init__: the collection is deleted and created again
InitChroma ==
    /\ pc = "ch_idle"
    /\ collection = <<>>
    /\ ChunkParked /\ MsParked /\ MvParked /\ NoCall /\ RlParked

\* await store.add_texts(texts, embeddings, metadata, ids): a batch that is
\* not empty, its lists of one length
ChCallAddTexts ==
    /\ pc = "ch_idle"
    /\ \E start \in 1..Len(Docs), sh \in AddShapes, policy \in DuplicatePolicies :
         LET c == AddArgs(start, sh)
             r == ChromaAddTexts(collection, c.texts, c.embeddings, c.metadata,
                                 c.ids, policy)
         IN  /\ WellFormedAdd(c)
             /\ c.texts # <<>>
             /\ collection' = r.collection
             /\ call' = c
             /\ result' = [outcome |-> r.outcome, value |-> r.value]
    /\ pc' = "ch_returned"
    /\ UNCHANGED <<chunk_vars, ms_vars, mv_vars, embedding_dimension, rl_vars, tasks>>

\* the caller takes the result; the store is ready for the next call
ChReturn ==
    /\ pc = "ch_returned"
    /\ pc' = "ch_idle"
    /\ call' = [op |-> "none"]
    /\ result' = [outcome |-> "none", value |-> <<>>]
    /\ UNCHANGED <<chunk_vars, ms_vars, mv_vars, chroma_vars, embedding_dimension, rl_vars, tasks>>

NextChroma ==
    \/ ChCallAddTexts
    \/ ChReturn

\* a MemoryStore or a ChromaStore
SpecStores == (InitStore \/ InitChroma) /\ [][NextStore \/ NextChroma]_vars

\* C11: when ids are omitted, add returns one generated id per text, the
\* generated ids are distinct from each other and from every id already
\* stored, no earlier record is overwritten and the record count grows by
\* the number of texts added (MemoryStore and ChromaStore).
C11_GeneratedIdsFresh ==
    [][(pc \in {"ms_idle", "ch_idle"} /\ call'.op = "add_texts" /\ ~call'.ids.some
          /\ WellFormedAdd(call')) =>
          LET ids == result'.value
              before == IF pc = "ms_idle" THEN ms_texts ELSE collection
              after == IF pc = "ms_idle" THEN ms_texts' ELSE collection'
          IN  /\ result'.outcome = "ok"
              /\ Len(ids) = Len(call'.texts)
              /\ \A a, b \in 1..Len(ids) : a # b => ids[a] # ids[b]
              /\ \A a \in 1..Len(ids) : ids[a] \notin DictKeys(before)
              /\ \A id \in DictKeys(before) :
                     id \in DictKeys(after) /\ DictGet(after, id) = DictGet(before, id)
              /\ Len(after) = Len(before) + Len(call'.texts)]_vars


(***************************************************************************)
(* MemoryStore fed with embeddings of any length and norm                  *)
(***************************************************************************)
\* embeddings callers pass: of the configured length and of others, the
\* zero vector included
Vectors == {<<6, 8>>, <<10, 0>>, <<0, 0>>, <<2>>, <<0, 6, 8>>}

\* await store.add_texts([text], [embedding], ids=[id])
MsCallAddVector ==
    /\ pc = "ms_idle"
    /\ \E v \in Vectors, i \in 1..Len(ExplicitIds) :
         LET c == [op |-> "add_texts", texts |-> <<Docs[i].text>>,
                   embeddings |-> <<v>>, metadata |-> None,
                   ids |-> Some(<<ExplicitIds[i]>>)]
             r == MsAddTexts(MsStore, c.texts, c.embeddings, c.metadata, c.ids,
                             uuid_count)
         IN  /\ ms_texts' = r.store.texts
             /\ ms_embeddings' = r.store.embeddings
             /\ ms_metadata' = r.store.metadata
             /\ call' = c
             /\ result' = [outcome |-> r.outcome, value |-> r.value]
    /\ pc' = "ms_returned"
    /\ UNCHANGED <<metric, uuid_count, recording, live, chunk_vars, chroma_vars,
                   embedding_dimension, rl_vars, tasks, mv_vars>>

NextVectors ==
    \/ MsCallAddVector
    \/ MsCallGetById
    \/ MsCallDelete
    \/ MsCallClear
    \/ MsReturn

SpecVectors == InitStore /\ [][NextVectors]_vars

\* C12: every stored embedding has exactly embedding_dimension components.
C12_StoredDimension ==
    pc \in {"ms_idle", "ms_returned"} =>
        \A i \in 1..Len(ms_embeddings) :
            Len(ms_embeddings[i].v) = embedding_dimension

\* C13: every embedding stored by MemoryStore.add_texts has unit L2 norm,
\* for every input embedding.
C13_StoredUnitNorm ==
    pc \in {"ms_idle", "ms_returned"} =>
        \A i \in 1..Len(ms_embeddings) :
            Dot(ms_embeddings[i].v, ms_embeddings[i].v) = One

\* C14: under the cosine metric a search with the exact embedding of a
\* stored record returns a record with that embedding first, and the score
\* reported for it is a similarity of approximately 1.0.
C14_SelfSimilarity ==
    (/\ pc = "ms_returned"
     /\ call.op = "search"
     /\ metric = "cosine"
     /\ call.k >= 1
     /\ ~call.filter_metadata.some
     /\ \E i \in 1..Len(ms_embeddings) :
            ms_embeddings[i].v =
                DivideBy(call.query_embedding, Norm(call.query_embedding)))
    => /\ result.value # <<>>
       /\ result.value[1].embedding =
              DivideBy(call.query_embedding, Norm(call.query_embedding))
       /\ result.value[1].score >= One - 1
       /\ result.value[1].score <= One + 1


(***************************************************************************)
(* SemanticRetrieval with an embedding capability that raises              *)
(***************************************************************************)
\* a failure of the provider swallowed: retrieve returns an empty list
RetrieveSwallowing(S, cfg, query, filters, failing) ==
    LET r == Retrieve(S, cfg, query, filters)
    IN  IF failing = 1
        THEN [outcome |-> "ok", value |-> <<>>, candidates |-> <<>>,
              filtered |-> <<>>, searched |-> FALSE]
        ELSE IF /\ r.outcome = "ok"
                /\ cfg.filter_duplicates
                /\ failing - 1 <= Len(r.candidates)
        THEN [outcome |-> "ok", value |-> <<>>, candidates |-> r.candidates,
              filtered |-> <<>>, searched |-> TRUE]
        ELSE [outcome |-> r.outcome, value |-> r.value,
              candidates |-> r.candidates, filtered |-> r.filtered,
              searched |-> TRUE]

\* SemanticRetrieval.retrieve when the provider raises at its failing-th call:
\* call 1 embeds the query (line 131), call i + 1 re-embeds the i-th
\* candidate in _filter_duplicates (line 94); nothing catches the exception
RetrieveFailing(S, cfg, query, filters, failing) ==
    LET r == Retrieve(S, cfg, query, filters)
    IN  IF failing = 1
        THEN [outcome |-> "error", value |-> <<>>, candidates |-> <<>>,
              filtered |-> <<>>, searched |-> FALSE]
        ELSE IF /\ r.outcome = "ok"
                /\ cfg.filter_duplicates
                /\ failing - 1 <= Len(r.candidates)
        THEN [outcome |-> "error", value |-> <<>>, candidates |-> r.candidates,
              filtered |-> <<>>, searched |-> TRUE]
        ELSE [outcome |-> r.outcome, value |-> r.value,
              candidates |-> r.candidates, filtered |-> r.filtered,
              searched |-> TRUE]

\* the configurations retrieve runs under when the provider raises
FailingConfigs ==
    {c \in RetrievalConfigs :
        c.min_similarity = 0 /\ c.duplicate_threshold = One - 1}

\* SemanticRetrieval(store, provider, config).retrieve(query, filters), the
\* provider raising at its failing-th call
CallRetrieveFailing ==
    /\ pc = "mv_idle"
    /\ \E cfg \in FailingConfigs, q \in QueryTexts, f \in MvFilterArgs,
          failing \in 1..(MaxStore + 1) :
         /\ call' = [op |-> "retrieve", config |-> cfg, query |-> q, filters |-> f,
                     failing |-> failing]
         /\ result' = RetrieveFailing(MvStore, cfg, q, f, failing)
    /\ pc' = "mv_returned"
    /\ UNCHANGED <<chunk_vars, chroma_vars, embedding_dimension, rl_vars, tasks, ms_vars, mv_vars>>

NextProviderFails ==
    \/ MvCallAddText
    \/ MvCallClear
    \/ CallRetrieveFailing
    \/ MvReturn

SpecProviderFails == InitVector /\ [][NextProviderFails]_vars

\* the candidates the index returns to the retrieve call that has returned
IndexCandidates ==
    MvSimilaritySearch(MvStore, Embed[call.query],
                       IF call.config.filter_duplicates
                       THEN call.config.top_k * 2 ELSE call.config.top_k,
                       call.config.min_similarity, call.filters).value

\* C15: if the embedding capability raises while retrieve runs, embedding
\* the query or re-embedding a candidate during duplicate suppression,
\* retrieve raises and returns no list; when the query embedding fails, no
\* index search is performed.
C15_ProviderErrorPropagates ==
    (pc = "mv_returned" /\ call.op = "retrieve") =>
        /\ call.failing = 1 =>
               /\ result.outcome = "error"
               /\ result.value = <<>>
               /\ ~result.searched
        /\ (/\ call.failing > 1
            /\ call.config.filter_duplicates
            /\ call.failing - 1 <= Len(IndexCandidates)) =>
               /\ result.outcome = "error"
               /\ result.value = <<>>

\* the provider raised on the second of three candidates
C15_Witness ==
    /\ pc = "mv_returned"
    /\ call.op = "retrieve"
    /\ call.failing = 3
    /\ call.config.filter_duplicates
    /\ Len(IndexCandidates) = 3
    /\ result.outcome = "error"
    /\ result.searched


(***************************************************************************)
(* Further properties of the chunkers                                      *)
(***************************************************************************)
\* C16: for every chunk returned by either chunker on text T,
\* 0 <= start_char <= end_char <= len(T) and T[start_char:end_char] is the
\* chunk's text.
C16_OffsetsLocateText ==
    \A i \in 1..Len(chunks) :
        /\ 0 <= chunks[i].start_char
        /\ chunks[i].start_char <= chunks[i].end_char
        /\ chunks[i].end_char <= Len(text)
        /\ Slice(text, chunks[i].start_char, chunks[i].end_char) = chunks[i].text


\* the text of test_simple_chunker_sentence_boundaries:
\* "First sentence. Second sentence here. Third sentence is longer."
ExampleText ==
    <<"F", "i", "r", "s", "t", " ", "s", "e", "n", "t", "e", "n", "c", "e",
      ".", " ", "S", "e", "c", "o", "n", "d", " ", "s", "e", "n", "t", "e",
      "n", "c", "e", " ", "h", "e", "r", "e", ".", " ", "T", "h", "i", "r",
      "d", " ", "s", "e", "n", "t", "e", "n", "c", "e", " ", "i", "s", " ",
      "l", "o", "n", "g", "e", "r", ".">>

\* ChunkConfig(chunk_size=50, chunk_overlap=10, respect_sentences=True)
ExampleConfig ==
    [chunk_size |-> 50, chunk_overlap |-> 10, min_chunk_size |-> 20,
     split_on_newline |-> TRUE, respect_sentences |-> TRUE]

\* SimpleChunker(ExampleConfig).chunk_text(ExampleText)
InitExample ==
    /\ text = ExampleText
    /\ config = ExampleConfig
    /\ strategy = "simple"
    /\ metadata_obj = None
    /\ heap = <<>>
    /\ ChunkCall

\* the bounded texts and the text of the test
SpecSentences == (InitChunk \/ InitExample) /\ [][NextChunk]_vars

\* the candidate end of the window that starts at current_pos
WindowEnd == Min(current_pos + config.chunk_size, Len(text))

\* the sentence boundaries of the window: for each '.', '!' or '?' in it,
\* the offset after the closing punctuation and whitespace that follow it
\* inside the window
WindowBoundaries ==
    {p \in (current_pos + 1)..WindowEnd :
        \E t \in current_pos..(p - 1) :
            /\ IsTerminal(text[t + 1])
            /\ \A q \in (t + 1)..(p - 1) : IsCloser(text[q + 1])
            /\ p = WindowEnd \/ ~IsCloser(text[p + 1])}

\* C17: SimpleChunker with respect_sentences, when no newline boundary
\* applies and the candidate end E of the window is before the end of the
\* text: the chunk ends at the last sentence boundary of the window that
\* leaves at least min_chunk_size characters, otherwise at E; and every
\* chunk of the text of the test ends in '.', '!' or '?'.
C17_SentenceBoundary ==
    /\ [][(/\ pc = "simple_loop"
           /\ current_pos < Len(text)
           /\ config.respect_sentences
           /\ WindowEnd < Len(text)
           /\ \/ ~config.split_on_newline
              \/ \A q \in current_pos..(WindowEnd - 1) : text[q + 1] # NL)
          => LET leaving == {p \in WindowBoundaries :
                                p - current_pos >= config.min_chunk_size}
             IN  current_pos' = IF leaving = {} THEN WindowEnd
                                ELSE CHOOSE p \in leaving :
                                         \A q \in leaving : q <= p]_vars
    /\ [](text = ExampleText =>
             \A i \in 1..Len(chunks) :
                 IsTerminal(chunks[i].text[Len(chunks[i].text)]))


\* C18: SimpleChunker with split_on_newline: every returned chunk other than
\* the last one contains no newline character.
C18_NoNewlineBeforeLast ==
    (strategy = "simple" /\ config.split_on_newline) =>
        \A i \in 1..(Len(chunks) - 1) :
            \A q \in 1..Len(chunks[i].text) : chunks[i].text[q] # NL

\* the first two chunks are lines of one window, a newline between them,
\* and a later chunk follows
C18_Witness ==
    /\ pc = "done"
    /\ strategy = "simple"
    /\ config.split_on_newline
    /\ Len(chunks) >= 3
    /\ chunks[2].src_hi - chunks[1].src_lo <= config.chunk_size
    /\ \E q \in chunks[1].src_hi..(chunks[2].src_lo - 1) : text[q + 1] = NL


(***************************************************************************)
(* chunk_text called with a metadata mapping, and the caller changing one  *)
(* of the mappings it holds after the call                                 *)
(***************************************************************************)
\* chunk.metadata[k] = v, the mapping a set of <<key, value>>
MetadataSet(d, k, v) == {kv \in d : kv[1] # k} \cup {<<k, v>>}

\* chunk.metadata.pop(k, None)
MetadataDel(d, k) == {kv \in d : kv[1] # k}

\* the mappings a caller passes as metadata
CallerMetadata == {{}, {<<"source", "test">>},
                   {<<"source", "test">>, <<"language", "en">>}}

\* adding, replacing and removing a key
MetadataUpdates == {[op |-> "set", k |-> "page", v |-> "1"],
                    [op |-> "set", k |-> "source", v |-> "other"],
                    [op |-> "del", k |-> "source", v |-> ""]}

ApplyUpdate(d, u) ==
    IF u.op = "set" THEN MetadataSet(d, u.k, u.v) ELSE MetadataDel(d, u.k)

\* chunk_overlap has no effect on the windows (lines 135-137), and neither it
\* nor min_chunk_size on the metadata
MetadataConfigs ==
    {c \in ChunkConfigs : c.chunk_overlap = 0 /\ c.min_chunk_size = 1}

\* chunker.chunk_text(text, metadata): the caller's mapping is object 1
InitMetadata ==
    /\ text \in Texts
    /\ config \in MetadataConfigs
    /\ strategy \in {"simple", "recursive"}
    /\ \E d \in CallerMetadata : heap = <<d>>
    /\ metadata_obj = Some(1)
    /\ ChunkCall

\* the objects the caller holds after the call: its own mapping and
\* chunks[i].metadata of every returned chunk
HeldMetadata == <<1>> \o chunk_metadata

\* after the call the caller updates one of the mappings it holds
MutateMetadata ==
    /\ pc = "done"
    /\ pc' = "mutated"
    /\ \E h \in 1..Len(HeldMetadata), u \in MetadataUpdates :
           heap' = [heap EXCEPT ![HeldMetadata[h]] = ApplyUpdate(@, u)]
    /\ UNCHANGED <<ms_vars, mv_vars, obs_vars, chroma_vars, embedding_dimension, rl_vars, tasks>>
    /\ UNCHANGED <<text, config, strategy, current_pos, chunk_index, chunks,
                   major_sections, section_no, metadata_obj, chunk_metadata>>

NextMetadata == NextChunk \/ MutateMetadata

SpecMetadata == InitMetadata /\ [][NextMetadata]_vars

\* C19: every chunk returned by either chunker carries its own copy of the
\* caller's metadata mapping: on return it equals the mapping passed in, is
\* not the same object as it and is not shared with another chunk; adding,
\* removing or replacing a key in one of the mappings after the call changes
\* none of the others.
C19_OwnCopy ==
    [][/\ pc' = "done" =>
              \A i \in 1..Len(chunk_metadata') :
                  /\ heap'[chunk_metadata'[i]] = heap'[1]
                  /\ chunk_metadata'[i] # 1
                  /\ \A j \in 1..Len(chunk_metadata') :
                         j # i => chunk_metadata'[j] # chunk_metadata'[i]
       /\ pc' = "mutated" =>
              \E h \in 1..Len(HeldMetadata) :
                  \A j \in 1..Len(HeldMetadata) :
                      j # h => heap'[HeldMetadata[j]] = heap[HeldMetadata[j]]
      ]_vars

\* a key of the first chunk's metadata was changed; the second chunk and the
\* caller still have the mapping that was passed
C19_Witness ==
    /\ pc = "mutated"
    /\ Len(chunk_metadata) >= 2
    /\ heap[1] # {}
    /\ heap[chunk_metadata[1]] # heap[1]
    /\ heap[chunk_metadata[2]] = heap[1]


(***************************************************************************)
(* Construction of ChunkConfig and RetrievalConfig from arbitrary values   *)
(***************************************************************************)
\* the field values a caller may pass to ChunkConfig(...)
ChunkConfigArgs ==
    [chunk_size : -1..MaxChunkSize,
     chunk_overlap : -1..MaxChunkSize,
     min_chunk_size : -1..MaxChunkSize,
     split_on_newline : BOOLEAN,
     respect_sentences : BOOLEAN]

\* similarities below, inside, at the ends of and above [0, 1]
SimilarityArgs == {0 - 1, 0, One - 1, One, One + 1}

\* the field values a caller may pass to RetrievalConfig(...)
RetrievalConfigArgs ==
    [top_k : -1..MaxTopK,
     min_similarity : SimilarityArgs,
     rerank_results : BOOLEAN,
     filter_duplicates : BOOLEAN,
     duplicate_threshold : SimilarityArgs]

\* the dataclass __init__ followed by __post_init__
Construct(op, args) ==
    IF op = "ChunkConfig"
    THEN IF ChunkConfigValid(args)
         THEN [outcome |-> "ok", value |-> args]
         ELSE [outcome |-> "ValueError", value |-> <<>>]
    ELSE IF RetrievalConfigValid(args)
         THEN [outcome |-> "ok", value |-> args]
         ELSE [outcome |-> "ValueError", value |-> <<>>]

InitConfig ==
    /\ pc = "config_call"
    /\ \/ \E c \in ChunkConfigArgs : call = [op |-> "ChunkConfig", args |-> c]
       \/ \E c \in RetrievalConfigArgs : call = [op |-> "RetrievalConfig", args |-> c]
    /\ result = [outcome |-> "none", value |-> <<>>]
    /\ ChunkParked /\ MsParked /\ MvParked /\ ChromaParked /\ RlParked

ConstructConfig ==
    /\ pc = "config_call"
    /\ pc' = "config_returned"
    /\ result' = Construct(call.op, call.args)
    /\ UNCHANGED <<chunk_vars, ms_vars, mv_vars, chroma_vars, embedding_dimension, rl_vars, tasks,
                   call>>

NextConfig == ConstructConfig

SpecConfig == InitConfig /\ [][NextConfig]_vars

\* C20: ChunkConfig construction fails if and only if chunk_size <= 0,
\* chunk_overlap < 0, chunk_overlap >= chunk_size, min_chunk_size <= 0 or
\* min_chunk_size > chunk_size; RetrievalConfig construction fails if and only
\* if top_k <= 0, min_similarity is outside [0,1] or duplicate_threshold is
\* outside [0,1]; every other combination of values constructs successfully.
C20_ConfigErrorsAtConstruction ==
    pc = "config_returned" =>
        /\ result.outcome \in {"ok", "ValueError"}
        /\ call.op = "ChunkConfig" =>
               (result.outcome = "ValueError" <=>
                   \/ call.args.chunk_size <= 0
                   \/ call.args.chunk_overlap < 0
                   \/ call.args.chunk_overlap >= call.args.chunk_size
                   \/ call.args.min_chunk_size <= 0
                   \/ call.args.min_chunk_size > call.args.chunk_size)
        /\ call.op = "RetrievalConfig" =>
               (result.outcome = "ValueError" <=>
                   \/ call.args.top_k <= 0
                   \/ call.args.min_similarity < 0
                   \/ call.args.min_similarity > One
                   \/ call.args.duplicate_threshold < 0
                   \/ call.args.duplicate_threshold > One)
        /\ result.outcome = "ok" => result.value = call.args

\* the overlap equal to the chunk size, every other field acceptable
C20_Witness ==
    /\ pc = "config_returned"
    /\ call.op = "ChunkConfig"
    /\ call.args.chunk_size > 0
    /\ call.args.chunk_overlap = call.args.chunk_size
    /\ call.args.min_chunk_size > 0
    /\ call.args.min_chunk_size <= call.args.chunk_size
    /\ result.outcome = "ValueError"


\* a returned chunk and a surviving candidate are the same but for the rank
SameRetrieved(a, b) == a.chunk = b.chunk /\ a.similarity = b.similarity

\* C21: with rerank_results enabled the list retrieve returns is in
\* non-increasing order of similarity and is the first top_k elements of a
\* permutation of the candidates that survived duplicate suppression:
\* reranking adds no candidate and drops none.
C21_RerankPermutation ==
    (RetrieveReturned /\ result.outcome = "ok" /\ call.config.rerank_results) =>
        LET out == result.value
            surv == result.filtered
            n == Len(out)
            m == Len(surv)
        IN  /\ n = Min(call.config.top_k, m)
            /\ \A i \in 1..n : \A j \in i..n :
                   out[i].similarity >= out[j].similarity
            /\ \E f \in [1..n -> 1..m] :
                   /\ \A i, j \in 1..n : i # j => f[i] # f[j]
                   /\ \A i \in 1..n : SameRetrieved(out[i], surv[f[i]])
                   /\ \A j \in 1..m :
                          (\A i \in 1..n : f[i] # j) =>
                              \A i \in 1..n : surv[j].similarity <= out[i].similarity

\* three candidates of different similarity survived, two were returned
C21_Witness ==
    /\ RetrieveReturned
    /\ call.config.rerank_results
    /\ call.config.filter_duplicates
    /\ Len(result.filtered) = 3
    /\ Len(result.value) = 2
    /\ result.value[1].similarity > result.value[2].similarity
    /\ result.value[2].similarity > result.filtered[3].similarity


\* either chunker called on a text, or a MemoryVectorStore filled text by
\* text and queried through SemanticRetrieval
SpecEmpty == (InitChunk \/ InitVector) /\ [][NextChunk \/ NextRetrieval]_vars

\* the index holds no records
IndexEmpty == mv_texts = <<>> /\ mv_embeddings = <<>> /\ mv_metadatas = <<>>

\* C22: chunk_text("") returns an empty sequence for both chunkers, and
\* retrieve against an index that holds no records returns an empty list,
\* without error, for every setting of filter_duplicates and rerank_results.
C22_EmptyInEmptyOut ==
    /\ (pc = "done" /\ text = <<>>) => chunks = <<>>
    /\ (RetrieveReturned /\ IndexEmpty) =>
           result.outcome = "ok" /\ result.value = <<>>

\* retrieve on an empty index, duplicate filtering and reranking both on
C22_Witness ==
    /\ RetrieveReturned
    /\ IndexEmpty
    /\ call.config.filter_duplicates
    /\ call.config.rerank_results
    /\ result.value = <<>>


(***************************************************************************)
(* app/core/middleware/rate_limit.py: RateLimiter and RateLimitMiddleware  *)
(* request_counts is a dict ip -> [kind, items]: kind tells a              *)
(* defaultdict(int) from a plain dict, items is the set of                 *)
(* <<timestamp, count>> pairs.                                             *)
(***************************************************************************)
MaxTicks == 3

MaxBurst == 2

MaxRequests == 4

\* the length of the window: current_time - ts < 60
WindowSeconds == 60

\* the clock advances in steps of half a window
TickSeconds == WindowSeconds \div 2

ClientIps == {"1.1.1.1", "2.2.2.2"}

Paths == {"/test", "/health"}

\* RateLimitMiddleware(exclude_paths=["/health"])
ExcludePaths == {"/health"}

\* self.request_counts[ip]: the outer defaultdict makes a defaultdict(int)
\* for an ip it does not hold
CountsOf(rc, ip) ==
    IF ip \in DictKeys(rc) THEN DictGet(rc, ip)
    ELSE [kind |-> "defaultdict", items |-> {}]

\* {ts: count for ts, count in items if current_time - ts < 60}
KeepRecent(items, current_time) ==
    {e \in items : current_time - e[1] < WindowSeconds}

\* sum(d.values())
RECURSIVE SumCounts(_)
SumCounts(items) ==
    IF items = {} THEN 0
    ELSE LET e == CHOOSE x \in items : TRUE
         IN  e[2] + SumCounts(items \ {e})

Timestamps(items) == {e[1] : e \in items}

\* min(d.keys())
MinTimestamp(items) ==
    CHOOSE t \in Timestamps(items) : \A u \in Timestamps(items) : t <= u

\* d[current_time] += 1 on a dict that holds current_time, or on a defaultdict
AddRequest(items, current_time) ==
    IF current_time \in Timestamps(items)
    THEN {IF e[1] = current_time THEN <<e[1], e[2] + 1>> ELSE e : e \in items}
    ELSE items \cup {<<current_time, 1>>}

\* RateLimiter._check_rate_limit
CheckRateLimit(L, rc, lk, ip, current_time) ==
    LET kept == KeepRecent(CountsOf(rc, ip).items, current_time)
        \* lines 72-76: the comprehension is a plain dict
        rc1 == DictSet(rc, ip, [kind |-> "dict", items |-> kept])
        lk1 == lk \cup {ip}
        total_requests == SumCounts(kept)
    IN  IF total_requests >= L.burst_limit
        THEN [outcome |-> "limited",
              info |-> [limit |-> L.requests_per_minute, remaining |-> 0,
                        reset |-> MinTimestamp(kept) + WindowSeconds - current_time],
              request_counts |-> rc1, locks |-> lk1]
        ELSE IF DictGet(rc1, ip).kind = "dict" /\ current_time \notin Timestamps(kept)
        \* line 90: += on a key a plain dict does not hold
        THEN [outcome |-> "KeyError",
              info |-> [limit |-> 0, remaining |-> 0, reset |-> 0],
              request_counts |-> rc1, locks |-> lk1]
        ELSE [outcome |-> "allowed",
              info |-> [limit |-> L.requests_per_minute,
                        remaining |-> Max(0, L.requests_per_minute - total_requests - 1),
                        reset |-> WindowSeconds],
              request_counts |->
                  DictSet(rc1, ip, [kind |-> DictGet(rc1, ip).kind,
                                    items |-> AddRequest(kept, current_time)]),
              locks |-> lk1]

\* RateLimitMiddleware.__call__
Dispatch(L, rc, lk, path, ip, current_time) ==
    IF path \in ExcludePaths
    THEN [status |-> "200", detail |-> "", headers |-> FALSE, retry_after |-> None,
          request_counts |-> rc, locks |-> lk]
    ELSE LET c == CheckRateLimit(L, rc, lk, ip, current_time)
         IN  IF c.outcome = "KeyError"
             THEN [status |-> "KeyError", detail |-> "", headers |-> FALSE,
                   retry_after |-> None,
                   request_counts |-> c.request_counts, locks |-> c.locks]
             ELSE IF c.outcome = "limited"
             THEN [status |-> "429", detail |-> "Too many requests", headers |-> TRUE,
                   retry_after |-> Some(c.info.reset),
                   request_counts |-> c.request_counts, locks |-> c.locks]
             ELSE [status |-> "200", detail |-> "", headers |-> TRUE,
                   retry_after |-> None,
                   request_counts |-> c.request_counts, locks |-> c.locks]

\* RateLimiter._cleanup_old_entries: one sweep over every ip
RECURSIVE CleanupLoop(_, _, _, _)
CleanupLoop(rc, lk, ips, current_time) ==
    IF ips = <<>> THEN [request_counts |-> rc, locks |-> lk]
    ELSE LET ip == Head(ips)
             kept == KeepRecent(CountsOf(rc, ip).items, current_time)
         IN  IF kept = {}
             THEN CleanupLoop(DictPop(rc, ip), lk \ {ip}, Tail(ips), current_time)
             ELSE CleanupLoop(DictSet(rc, ip, [kind |-> "dict", items |-> kept]),
                              lk \cup {ip}, Tail(ips), current_time)

CleanupOldEntries(rc, lk, current_time) ==
    CleanupLoop(rc, lk, [i \in 1..Len(rc) |-> rc[i].k], current_time)

\* RateLimitMiddleware(requests_per_minute, burst_limit, exclude_paths)
InitLimiter ==
    /\ pc = "rl_idle"
    /\ limiter \in [requests_per_minute : 1..MaxBurst, burst_limit : 1..MaxBurst]
    /\ request_counts = <<>>
    /\ locks = {}
    /\ clock = 0
    /\ served = <<>>
    /\ tasks = <<>>
    /\ ChunkParked /\ MsParked /\ MvParked /\ ChromaParked /\ NoCall

\* one request passes through the middleware
RlRequest ==
    /\ pc = "rl_idle"
    /\ Len(served) < MaxRequests
    /\ \E path \in Paths, ip \in ClientIps :
         LET r == Dispatch(limiter, request_counts, locks, path, ip, clock)
         IN  /\ call' = [op |-> "request", path |-> path, ip |-> ip, time |-> clock]
             /\ result' = [outcome |-> r.status, value |-> <<>>,
                           detail |-> r.detail, headers |-> r.headers,
                           retry_after |-> r.retry_after]
             /\ request_counts' = r.request_counts
             /\ locks' = r.locks
             /\ served' = IF path \in ExcludePaths THEN served
                          ELSE Append(served, [ip |-> ip, time |-> clock,
                                               status |-> r.status])
    /\ pc' = "rl_returned"
    /\ UNCHANGED <<chunk_vars, ms_vars, mv_vars, chroma_vars, embedding_dimension,
                   limiter, clock, tasks>>

\* the response is sent
RlReturn ==
    /\ pc = "rl_returned"
    /\ pc' = "rl_idle"
    /\ call' = [op |-> "none"]
    /\ result' = [outcome |-> "none", value |-> <<>>]
    /\ UNCHANGED <<chunk_vars, ms_vars, mv_vars, chroma_vars, embedding_dimension,
                   rl_vars, tasks>>

\* the cleanup thread wakes up between two requests
RlCleanup ==
    /\ pc = "rl_idle"
    /\ request_counts # <<>>
    /\ LET r == CleanupOldEntries(request_counts, locks, clock)
       IN  /\ request_counts' = r.request_counts
           /\ locks' = r.locks
    /\ UNCHANGED <<pc, chunk_vars, ms_vars, mv_vars, obs_vars, chroma_vars,
                   embedding_dimension, limiter, clock, served, tasks>>

\* time passes
RlTick ==
    /\ pc = "rl_idle"
    /\ clock < MaxTicks * TickSeconds
    /\ clock' = clock + TickSeconds
    /\ UNCHANGED <<pc, chunk_vars, ms_vars, mv_vars, obs_vars, chroma_vars,
                   embedding_dimension, limiter, request_counts, locks, served, tasks>>

NextLimiter ==
    \/ RlRequest
    \/ RlReturn
    \/ RlCleanup
    \/ RlTick

SpecLimiter == InitLimiter /\ [][NextLimiter]_vars

\* the earlier requests of the same ip that were allowed less than a window ago
AllowedInWindow(ip, current_time) ==
    {i \in 1..(Len(served) - 1) :
        /\ served[i].ip = ip
        /\ served[i].status = "200"
        /\ current_time - served[i].time < WindowSeconds}

\* C23: for each client ip a request is allowed, recorded and answered
\* normally while fewer than burst_limit requests of that ip were allowed in
\* the last 60 seconds; every further request is rejected with 'Too many
\* requests' and a retry_after value; the requests of other ips do not count.
C23_BurstLimitPerIp ==
    (pc = "rl_returned" /\ call.path \notin ExcludePaths) =>
        LET n == Cardinality(AllowedInWindow(call.ip, call.time))
        IN  /\ n < limiter.burst_limit =>
                /\ result.outcome = "200"
                /\ call.time \in Timestamps(CountsOf(request_counts, call.ip).items)
            /\ n >= limiter.burst_limit =>
                /\ result.outcome = "429"
                /\ result.detail = "Too many requests"
                /\ result.retry_after.some


\* a step of the while loop of SimpleChunker.chunk_text
SimpleStep ==
    /\ strategy = "simple"
    /\ pc = "simple_loop"
    /\ current_pos < Len(text)
    /\ <<current_pos, chunks>>' # <<current_pos, chunks>>

\* C24: SimpleChunker: after the window [pos, end) the next window starts at
\* end - chunk_overlap whenever that is greater than pos, and at end only
\* when end - chunk_overlap would not advance past pos.
C24_OverlapAdvance ==
    [][SimpleStep =>
          LET end == ChunkEnd(text, config, current_pos)
          IN  current_pos' = IF end - config.chunk_overlap > current_pos
                             THEN end - config.chunk_overlap
                             ELSE end]_vars

\* C25: SimpleChunker.chunk_text terminates for every text and every valid
\* ChunkConfig: each loop iteration ends with the cursor strictly greater
\* than at its start and not beyond len(text), so the loop, which runs while
\* the cursor is below len(text), runs at most len(text) times.
C25_SimpleTerminates ==
    [][/\ SimpleStep => current_pos' > current_pos /\ current_pos' <= Len(text)
       /\ (strategy = "simple" /\ pc = "simple_loop" /\ pc' = "simple_loop") =>
              current_pos < Len(text)
       /\ (strategy = "simple" /\ pc = "call" /\ pc' = "simple_loop") =>
              current_pos' = 0]_vars

\* a loop that ran three times has returned
C25_Witness ==
    /\ pc = "done"
    /\ strategy = "simple"
    /\ Len(chunks) >= 3
    /\ current_pos = Len(text)
    /\ config.chunk_overlap > 0


\* the newlines of the window that leave at least min_chunk_size characters
WindowNewlines ==
    {n \in current_pos..(WindowEnd - 1) :
        text[n + 1] = NL /\ n - current_pos >= config.min_chunk_size}

\* the sentence boundaries of the window that leave at least min_chunk_size
\* characters
WindowSentenceEnds ==
    {p \in WindowBoundaries : p - current_pos >= config.min_chunk_size}

\* C26: SimpleChunker with split_on_newline and respect_sentences: when the
\* window [pos, min(pos + chunk_size, len(text))) is before the end of the
\* text and holds both a newline and a sentence boundary that each leave at
\* least min_chunk_size characters, the chunk ends at the last such sentence
\* boundary of the window, wherever the newline lies.
C26_SentenceOverNewline ==
    [][(/\ pc = "simple_loop"
        /\ current_pos < Len(text)
        /\ config.split_on_newline
        /\ config.respect_sentences
        /\ WindowEnd < Len(text)
        /\ WindowNewlines # {}
        /\ WindowSentenceEnds # {})
       => current_pos' = CHOOSE p \in WindowSentenceEnds :
                             \A q \in WindowSentenceEnds : q <= p]_vars


\* a text with two newlines in its first window, and a window of six
NewlineExampleText == <<"a", "a", NL, "a", NL, "a", "a">>

NewlineExampleConfigs ==
    [chunk_size : {Len(NewlineExampleText) - 1},
     chunk_overlap : {0},
     min_chunk_size : {1},
     split_on_newline : {TRUE},
     respect_sentences : BOOLEAN]

InitNewlineExample ==
    /\ text = NewlineExampleText
    /\ config \in NewlineExampleConfigs
    /\ strategy = "simple"
    /\ metadata_obj = None
    /\ heap = <<>>
    /\ ChunkCall

SpecNewlines == (InitChunk \/ InitNewlineExample) /\ [][NextChunk]_vars

\* C27: SimpleChunker with split_on_newline: when the candidate end
\* E = min(pos + chunk_size, len(text)) is before the end of the text and the
\* window [pos, E) holds newlines that leave at least min_chunk_size
\* characters, the end is moved to the last of them, the one nearest to E;
\* with no such newline the end stays at E.
C27_NearestNewline ==
    (/\ pc = "simple_loop"
     /\ current_pos < Len(text)
     /\ config.split_on_newline
     /\ WindowEnd < Len(text))
    => NewlineEnd(text, config, current_pos) =
           IF WindowNewlines = {} THEN WindowEnd
           ELSE CHOOSE n \in WindowNewlines : \A q \in WindowNewlines : q <= n


\* the metadata md contains every key of the filter with an equal value
Eligible(md, filter) == \A p \in filter : p \in md

\* the metadata of the i-th record of the MemoryStore
MsRecordMetadata(i) ==
    IF ms_embeddings[i].k \in DictKeys(ms_metadata)
    THEN DictGet(ms_metadata, ms_embeddings[i].k) ELSE {}

\* C28: with a metadata filter given to search, a stored record is eligible
\* if and only if its metadata contains every key of the filter with an
\* equal value; a record that lacks a filter key is never eligible, whatever
\* the filter value (MemoryStore.search, MemoryVectorStore.similarity_search).
C28_FilterNeedsKey ==
    /\ (pc = "ms_returned" /\ call.op = "search" /\ call.filter_metadata.some) =>
           LET res == result.value
               f == call.filter_metadata.v
               eligible == {i \in 1..Len(ms_embeddings) :
                               Eligible(MsRecordMetadata(i), f)}
           IN  /\ \A j \in 1..Len(res) :
                      \E i \in eligible : res[j].id = ms_embeddings[i].k
               /\ Len(res) = Min(call.k, Cardinality(eligible))
    /\ (/\ pc = "mv_returned" /\ call.op = "similarity_search"
        /\ result.outcome = "ok" /\ call.filters.some) =>
           LET res == result.value
               f == call.filters.v
               eligible == {i \in 1..Len(mv_embeddings) :
                               /\ i <= Len(mv_metadatas)
                               /\ Eligible(mv_metadatas[i], f)
                               /\ Dot(mv_embeddings[i], call.query_embedding)
                                      >= call.min_score}
           IN  /\ \A j \in 1..Len(res) : Eligible(res[j].chunk.metadata, f)
               /\ Len(res) = Min(call.k, Cardinality(eligible))


\* the filters callers pass to retrieve, a filter for a value of None included
RetrievalFilters == MvFilterArgs \cup {Some({<<"source", NoneValue>>})}

\* await retrieval.retrieve(query, filters)
CallRetrieveFiltered ==
    /\ pc = "mv_idle"
    /\ \E cfg \in RetrievalConfigs, q \in QueryTexts, f \in RetrievalFilters :
         /\ call' = [op |-> "retrieve", config |-> cfg, query |-> q, filters |-> f]
         /\ result' = Retrieve(MvStore, cfg, q, f)
    /\ pc' = "mv_returned"
    /\ UNCHANGED <<chunk_vars, chroma_vars, embedding_dimension, rl_vars, tasks, ms_vars,
                   mv_vars>>

NextFilters ==
    \/ MvCallAddText
    \/ MvCallClear
    \/ CallRetrieveFiltered
    \/ MvReturn

SpecFilters == InitVector /\ [][NextFilters]_vars

\* C29: each retrieve call embeds the query once and issues exactly one
\* index search, with k = 2 * top_k when filter_duplicates is enabled and
\* k = top_k otherwise, min_score = min_similarity and the caller's filters
\* unchanged; every returned chunk has similarity >= min_similarity and
\* matches the filters.
C29_OneSearch ==
    RetrieveReturned =>
        /\ result.embedded = <<call.query>>
        /\ result.searches =
               <<[query_embedding |-> Embed[call.query],
                  k |-> IF call.config.filter_duplicates
                        THEN 2 * call.config.top_k ELSE call.config.top_k,
                  min_score |-> call.config.min_similarity,
                  filters |-> call.filters]>>
        /\ \A i \in 1..Len(result.value) :
               /\ result.value[i].similarity >= call.config.min_similarity
               /\ call.filters.some =>
                      Eligible(result.value[i].chunk.metadata, call.filters.v)


(***************************************************************************)
(* MemoryStore called from several coroutines on one event loop: a         *)
(* coroutine runs until its next suspension point, then the loop may run   *)
(* another one                                                             *)
(***************************************************************************)
MaxTasks == 3

\* the calls the coroutines make; ids are given by the caller
ConcurrentCalls ==
    {AddArgs(1, [nt |-> 2, ne |-> 2, nm |-> 2, ni |-> 2]),
     AddArgs(2, [nt |-> 1, ne |-> 1, nm |-> -1, ni |-> 1]),
     [op |-> "search", query_embedding |-> <<5, 0>>, k |-> MaxK,
      filter_metadata |-> None],
     [op |-> "delete", ids |-> SliceTo(ExplicitIds, 1)],
     [op |-> "get_by_id", id |-> ExplicitIds[1]],
     [op |-> "clear"]}

\* a suspension after every loop iteration of add_texts and delete
SuspendsAfterEachItem(op, i) == op \in {"add_texts", "delete"}

\* whether the coroutine op gives control back to the event loop after the
\* i-th iteration of its loop: the methods of MemoryStore contain no await
Suspends(op, i) == FALSE

\* add_texts lines 59-71 from item pos + 1 up to the next suspension point
RECURSIVE RunAdd(_, _, _)
RunAdd(S, c, pos) ==
    IF pos >= Min(Len(c.texts), Len(c.embeddings))
    THEN [store |-> S, pos |-> pos, status |-> "done", outcome |-> "ok",
          value |-> c.ids.v]
    ELSE IF pos + 1 > Len(c.ids.v)
    THEN [store |-> S, pos |-> pos, status |-> "done", outcome |-> "error",
          value |-> <<>>]
    ELSE LET S1 == MsStoreRow(S, c.ids.v[pos + 1], c.texts[pos + 1],
                              c.embeddings[pos + 1],
                              StoredMetadata(c.metadata, pos + 1))
         IN  IF Suspends(c.op, pos + 1)
             THEN [store |-> S1, pos |-> pos + 1, status |-> "suspended",
                   outcome |-> "none", value |-> <<>>]
             ELSE RunAdd(S1, c, pos + 1)

\* delete lines 143-147 from id pos + 1 up to the next suspension point
RECURSIVE RunDelete(_, _, _)
RunDelete(S, c, pos) ==
    IF pos >= Len(c.ids)
    THEN [store |-> S, pos |-> pos, status |-> "done", outcome |-> "ok",
          value |-> <<TRUE>>]
    ELSE LET S1 == MsDelete(S, <<c.ids[pos + 1]>>)
         IN  IF Suspends(c.op, pos + 1)
             THEN [store |-> S1, pos |-> pos + 1, status |-> "suspended",
                   outcome |-> "none", value |-> <<>>]
             ELSE RunDelete(S1, c, pos + 1)

\* one coroutine from where it stands to its next suspension point or its end
RunCoroutine(S, m, c, pos) ==
    IF c.op = "add_texts" THEN RunAdd(S, c, pos)
    ELSE IF c.op = "delete" THEN RunDelete(S, c, pos)
    ELSE IF c.op = "search"
    THEN [store |-> S, pos |-> pos, status |-> "done", outcome |-> "ok",
          value |-> MsSearch(S, m, c.query_embedding, c.k, c.filter_metadata)]
    ELSE IF c.op = "get_by_id"
    THEN [store |-> S, pos |-> pos, status |-> "done", outcome |-> "ok",
          value |-> MsGetById(S, c.id)]
    ELSE [store |-> [texts |-> <<>>, embeddings |-> <<>>, metadata |-> <<>>],
          pos |-> pos, status |-> "done", outcome |-> "ok", value |-> <<TRUE>>]

\* asyncio.gather of MaxTasks calls on one empty MemoryStore
InitTasks ==
    /\ pc = "loop"
    /\ embedding_dimension = 2
    /\ metric = "cosine"
    /\ ms_texts = <<>>
    /\ ms_embeddings = <<>>
    /\ ms_metadata = <<>>
    /\ uuid_count = 0
    /\ recording = FALSE
    /\ live = <<>>
    /\ \E calls \in [1..MaxTasks -> ConcurrentCalls] :
           tasks = [t \in 1..MaxTasks |->
                       [call |-> calls[t], pos |-> 0, status |-> "pending",
                        outcome |-> "none", value |-> <<>>]]
    /\ limiter = [requests_per_minute |-> 1, burst_limit |-> 1]
    /\ request_counts = <<>>
    /\ locks = {}
    /\ clock = 0
    /\ served = <<>>
    /\ ChunkParked /\ MvParked /\ ChromaParked /\ NoCall

\* the event loop resumes a coroutine that has not finished
RunTask ==
    /\ pc = "loop"
    /\ \E t \in 1..Len(tasks) :
         /\ tasks[t].status # "done"
         /\ LET r == RunCoroutine(MsStore, metric, tasks[t].call, tasks[t].pos)
            IN  /\ ms_texts' = r.store.texts
                /\ ms_embeddings' = r.store.embeddings
                /\ ms_metadata' = r.store.metadata
                /\ tasks' = [tasks EXCEPT ![t] =
                                [call |-> @.call, pos |-> r.pos, status |-> r.status,
                                 outcome |-> r.outcome, value |-> r.value]]
    /\ UNCHANGED <<pc, metric, uuid_count, recording, live, chunk_vars, mv_vars,
                   obs_vars, chroma_vars, embedding_dimension, rl_vars>>

NextTasks == RunTask

SpecTasks == InitTasks /\ [][NextTasks]_vars

\* the calls made one after the other, in the order given, on the empty store
RECURSIVE Sequential(_, _, _)
Sequential(S, order, i) ==
    IF i > Len(order) THEN [store |-> S, results |-> <<>>]
    ELSE LET c == tasks[order[i]].call
             r == IF c.op = "add_texts"
                  THEN MsAddTexts(S, c.texts, c.embeddings, c.metadata, c.ids, 0)
                  ELSE IF c.op = "delete"
                  THEN [store |-> MsDelete(S, c.ids), outcome |-> "ok",
                        value |-> <<TRUE>>]
                  ELSE IF c.op = "search"
                  THEN [store |-> S, outcome |-> "ok",
                        value |-> MsSearch(S, metric, c.query_embedding, c.k,
                                           c.filter_metadata)]
                  ELSE IF c.op = "get_by_id"
                  THEN [store |-> S, outcome |-> "ok", value |-> MsGetById(S, c.id)]
                  ELSE [store |-> [texts |-> <<>>, embeddings |-> <<>>,
                                   metadata |-> <<>>],
                        outcome |-> "ok", value |-> <<TRUE>>]
             rest == Sequential(r.store, order, i + 1)
         IN  [store |-> rest.store,
              results |-> <<[task |-> order[i], outcome |-> r.outcome,
                             value |-> r.value]>> \o rest.results]

\* the orders in which the calls can be made one after the other
Orders ==
    {order \in [1..Len(tasks) -> 1..Len(tasks)] :
        \A i, j \in 1..Len(tasks) : i # j => order[i] # order[j]}

\* the store and every result are those of the calls made in some order
Serializable ==
    \E order \in Orders :
        LET seq == Sequential([texts |-> <<>>, embeddings |-> <<>>,
                               metadata |-> <<>>], order, 1)
        IN  /\ seq.store = MsStore
            /\ \A i \in 1..Len(order) :
                   /\ tasks[seq.results[i].task].outcome = seq.results[i].outcome
                   /\ tasks[seq.results[i].task].value = seq.results[i].value

AllDone == \A t \in 1..Len(tasks) : tasks[t].status = "done"

\* C30: MemoryStore's add_texts, search, delete, get_by_id and clear contain
\* no suspension point, so of several coroutines calling them on one event
\* loop every call takes effect atomically: the final store and every
\* returned result are those of some sequential ordering of the calls, a
\* search never runs while an add_texts batch is partly inserted, and a
\* search never changes the stored records.
C30_CallsAreAtomic ==
    /\ [](AllDone => Serializable)
    /\ [][\A t \in 1..Len(tasks) :
              (/\ tasks[t].call.op = "search"
               /\ tasks[t].status # "done"
               /\ tasks'[t].status = "done")
              => /\ <<ms_texts, ms_embeddings, ms_metadata>>'
                        = <<ms_texts, ms_embeddings, ms_metadata>>
                 /\ \A a \in 1..Len(tasks) :
                        tasks[a].call.op = "add_texts" =>
                            tasks[a].pos = 0 \/ tasks[a].status = "done"
         ]_vars

\* a batch of two was added, a search that ran after it returned both
\* records, and a delete ran last
C30_Witness ==
    /\ pc = "loop"
    /\ AllDone
    /\ \E a, b, c \in 1..Len(tasks) :
           /\ tasks[a].call.op = "add_texts" /\ Len(tasks[a].call.texts) = 2
           /\ tasks[b].call.op = "search" /\ Len(tasks[b].value) = 2
           /\ tasks[c].call.op = "delete"
    /\ Len(ms_texts) = 1


====
